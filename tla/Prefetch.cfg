CONSTANTS
    Scripts = {s1, s2, s3}
    Transports = {"rclone", "rsync"}
    None = None
SPECIFICATION Spec
SYMMETRY Symmetry
INVARIANTS TypeOK OneWriter
PROPERTIES OkIsThere
CHECK_DEADLOCK FALSE

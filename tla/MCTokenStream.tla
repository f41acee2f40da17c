--------------------------- MODULE MCTokenStream ---------------------------
(* TokenStream with two stop strings: one repeats a symbol, the other is    *)
(* longer than a marker and begins like one.                                *)
EXTENDS TokenStream

TwoStops == {<<"word", "word">>, <<"<", "word", "<">>}
============================================================================

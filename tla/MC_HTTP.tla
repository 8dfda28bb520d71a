------------------------------- MODULE MC_HTTP -------------------------------
EXTENDS HTTP, TLC

\* The objects under eg2's root: the file "f" and the directory "d".
TwoObjects == {102, 100}
FileAndDir == (102 :> "file") @@ (100 :> "dir")

\* Form values: " %" and "&+", both changed by cgi_escape.
TwoValues == {<<32, 37>>, <<38, 43>>}
=============================================================================

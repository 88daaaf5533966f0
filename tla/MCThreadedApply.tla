--------------------------- MODULE MCThreadedApply --------------------------
EXTENDS GufuncCall

\* Two outer dimensions; the second argument has an inner one.
MCDims == << <<2, 2>>, <<2, 2, 3>>, <<2, 2>> >>
=============================================================================

------------------------------ MODULE MC_Cookies ------------------------------
EXTENDS Cookies

CONSTANTS a, b, colon

\* The cookie names "a" and "ab": one is a prefix of the other.
MCNames == {<<a>>, <<a, b>>}
=============================================================================

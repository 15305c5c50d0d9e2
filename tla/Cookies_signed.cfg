\* Bytes a, b and ':', the names "a" and "ab", values of up to two bytes,
\* one cookie written by the server, and a 4096-byte limit scaled so that
\* every such cookie fits.
CONSTANTS
    a = a
    b = b
    colon = colon
    Junk = Junk
    Sym = {a, b, colon}
    Colon = colon
    Names <- MCNames
    MaxLen = 2
    MaxCookieLen = 8
    MaxWrites = 1
SPECIFICATION Spec
INVARIANT SignedCookiesAuthentic

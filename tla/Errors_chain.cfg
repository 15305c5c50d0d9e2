\* Two services above the bottom one, every transport at each hop; the
\* bottom handler returns any error the package builds from these inputs
\* (New with a known and an unknown code, every status constructor, every
\* ErrorCode and one past them, with and without an argument), a plain
\* error, a nil *Error, or one of them wrapped.
CONSTANTS
    Ids <- MCIds
    Sources <- MCSources
    Details <- MCDetails
    Codes <- MCCodes
    AppCodes = {0, 1, 2, 3, 4, 5, 6, 7}
    Prefixes = {"call failed"}
    Transports = {"inproc", "grpc", "text"}
    MaxHops = 2
    NilError = NilError
SPECIFICATION Spec
INVARIANTS TypeOK ErrorPropagatesUnchanged ClassificationKept

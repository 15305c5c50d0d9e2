-------------------------------- MODULE Errors --------------------------------
(***************************************************************************)
(* The error values of src/errors/errors.go as they travel up a chain of   *)
(* services.  The bottom service's handler returns an error built by the   *)
(* package (or a plain, a wrapped or a typed-nil one); each hop above it   *)
(* receives that error over a transport, decides with IsNetworkError       *)
(* whether to retry, and returns errors.FromError(err) upstream.           *)
(*                                                                         *)
(* Strings are sequences of atoms (strings), chosen so that no phrase the  *)
(* code looks for straddles two atoms: strings.Contains is membership of  *)
(* an atom.  A text is the structure of what err.Error() prints:           *)
(*   [k |-> "str",  s |-> atoms]          plain text                       *)
(*   [k |-> "json", e |-> record]         json.Marshal of an *Error        *)
(*   [k |-> "wrap", p |-> atom, in |-> t] fmt.Errorf("p: %w", err)         *)
(*   [k |-> "rpc",  in |-> t]             "rpc error: code = .. desc = t"  *)
(* An error is [t |-> "app", e |-> record] (a non-nil *Error), "nilapp" (a *)
(* nil *Error in an error), "plain" (errors.New), "wrap" or "status" (a    *)
(* gRPC status error).                                                     *)
(***************************************************************************)
EXTENDS Naturals, Sequences, TLC

LOCAL SeqExt == INSTANCE SequencesExt

CONSTANTS
    Ids,         \* Id values handlers use ("go.micro.client" among them)
    Sources,     \* Source values
    Details,     \* messages: atoms, the network phrases among them
    Codes,       \* codes handed to New
    AppCodes,    \* ErrorCode values handed to AppError (0..6 are defined)
    Prefixes,    \* the context a handler adds when it wraps with %w
    Transports,  \* subset of {"inproc", "grpc", "text"}
    MaxHops,     \* services above the bottom one
    NilError     \* model value: a nil error / nil *Error

ASSUME Transports \subseteq {"inproc", "grpc", "text"} /\ MaxHops \in Nat

Str(atoms) == [k |-> "str", s |-> atoms]

\* http.StatusText: "" for a code it does not know.
StatusNames ==
    400 :> "Bad Request" @@ 401 :> "Unauthorized" @@ 403 :> "Forbidden"
    @@ 404 :> "Not Found" @@ 405 :> "Method Not Allowed"
    @@ 408 :> "Request Timeout" @@ 409 :> "Conflict"
    @@ 422 :> "Unprocessable Entity" @@ 500 :> "Internal Server Error"
    @@ 501 :> "Not Implemented" @@ 502 :> "Bad Gateway"
    @@ 503 :> "Service Unavailable" @@ 504 :> "Gateway Timeout"
StatusText(c) == IF c \in DOMAIN StatusNames THEN StatusNames[c] ELSE ""

\* type Error struct: the zero value new(Error) holds.
Zero == [id |-> "", code |-> 0, source |-> "", detail |-> Str(<<>>), status |-> ""]

App(r) == [t |-> "app", e |-> r]

\* New: every field from the arguments, Status from the code.
New(id, source, detail, code) ==
    [id |-> id, code |-> code, source |-> source, detail |-> Str(<<detail>>),
     status |-> StatusText(code)]

\* BadRequest .. GatewayTimeout: one constructor per code, no Source.
ConstructorCodes == {400, 401, 403, 404, 405, 408, 409, 500, 501, 502, 503, 504}
StatusError(id, detail, code) ==
    [id |-> id, code |-> code, source |-> "", detail |-> Str(<<detail>>),
     status |-> StatusText(code)]

\* ValidationError: 422 with a Source.
ValidationError(id, source, detail) ==
    [id |-> id, code |-> 422, source |-> source, detail |-> Str(<<detail>>),
     status |-> StatusText(422)]

\* appErrors, indexed by ErrorCode + 1; "%v" is the format's one verb.
AppErrors ==
    << [id |-> "EC1", fmt |-> <<"not good">>, code |-> 500],
       [id |-> "EC2", fmt |-> <<"not valid">>, code |-> 500],
       [id |-> "EC3", fmt |-> <<"not valid">>, code |-> 500],
       [id |-> "EC4", fmt |-> <<"not valid">>, code |-> 500],
       [id |-> "SME", fmt |-> <<"unable to send email: ", "%v">>, code |-> 500],
       [id |-> "DBE", fmt |-> <<"database error: ", "%v">>, code |-> 500],
       [id |-> "PSE", fmt |-> <<"broker publish error: ", "%v">>, code |-> 500] >>

\* fmt.Sprintf of a format with at most one %v and at most one argument.
Sprintf(f, a) ==
    IF \E i \in 1..Len(f) : f[i] = "%v"
    THEN SeqExt!ReplaceAll(f, "%v", IF a = <<>> THEN "%!v(MISSING)" ELSE a[1])
    ELSE IF a = <<>> THEN f ELSE f \o <<"%!(EXTRA string=", a[1], ")">>

\* AppError: a code missing from appErrors reads the zero ErrorDetail.
AppError(ec, a) ==
    LET d == IF ec + 1 \in DOMAIN AppErrors THEN AppErrors[ec + 1]
             ELSE [id |-> "", fmt |-> <<>>, code |-> 0]
    IN [id |-> d.id, code |-> d.code, source |-> "",
        detail |-> Str(Sprintf(d.fmt, a)), status |-> StatusText(500)]

\* err.Error(): (*Error).Error marshals the struct (all five keys, a nil
\* pointer as "null"); a wrap prints "prefix: inner"; a status error
\* prints its message after the code.
RECURSIVE Text(_)
Text(err) ==
    CASE err.t = "app"    -> [k |-> "json", e |-> err.e]
      [] err.t = "nilapp" -> Str(<<"null">>)
      [] err.t = "plain"  -> err.text
      [] err.t = "wrap"   -> [k |-> "wrap", p |-> err.prefix, in |-> Text(err.inner)]
      [] err.t = "status" -> [k |-> "rpc", in |-> err.msg]

\* The atoms a text prints.
RECURSIVE Words(_)
Words(t) ==
    CASE t.k = "str"  -> {t.s[i] : i \in 1..Len(t.s)}
      [] t.k = "json" -> {t.e.id, t.e.source, t.e.status} \cup Words(t.e.detail)
      [] t.k = "wrap" -> {t.p} \cup Words(t.in)
      [] t.k = "rpc"  -> Words(t.in)

Contains(t, phrase) == phrase \in Words(t)

(* Mutant: the parsed fields are thrown away and the text kept as Detail. *)
ParseIgnoresJson(t) == [Zero EXCEPT !.detail = t]

\* Parse: json.Unmarshal into new(Error); "null" leaves it zero; any text
\* that is not JSON becomes the Detail.
Parse(t) ==
    CASE t.k = "json"              -> t.e
      [] t = Str(<<"null">>)       -> Zero
      [] OTHER                     -> [Zero EXCEPT !.detail = t]

(* Mutant: a gRPC status error is parsed from its Error() text.          *)
FromErrorStatusText(err) ==
    CASE err = NilError    -> NilError
      [] err.t = "app"     -> err.e
      [] OTHER             -> Parse(Text(err))

(* Mutant: without `verr != nil`, a nil *Error is returned as is.         *)
FromErrorTypedNil(err) ==
    CASE err = NilError    -> NilError
      [] err.t = "nilapp"  -> NilError
      [] err.t = "app"     -> err.e
      [] err.t = "status"  -> Parse(err.msg)
      [] OTHER             -> Parse(Text(err))

\* FromError: nil stays nil; a non-nil *Error is returned as is; a gRPC
\* status error is parsed from its message; anything else from Error().
FromError(err) ==
    CASE err = NilError    -> NilError
      [] err.t = "app"     -> err.e
      [] err.t = "status"  -> Parse(err.msg)
      [] OTHER             -> Parse(Text(err))

\* Equal: both *Error and the same Code, or neither and the same error.
IsAppError(err) == err # NilError /\ err.t \in {"app", "nilapp"}
Equal(err1, err2) ==
    IF IsAppError(err1) # IsAppError(err2) THEN FALSE
    ELSE IF ~IsAppError(err1) THEN err1 = err2
    ELSE err1.e.code = err2.e.code
\* ... and reading verr.Code through a nil *Error panics.
EqualPanics(err1, err2) ==
    IsAppError(err1) /\ IsAppError(err2)
    /\ (err1.t = "nilapp" \/ err2.t = "nilapp")

NetworkPhrases == {"context deadline exceeded", "unexpected EOF", "context canceled",
                   "can't assign requested address", "SubConns are in TransientFailure"}

\* IsNetworkError of a non-nil error: a network phrase in err.Error(), or
\* the go-micro client's 500 "not found".  (On a nil error, err.Error()
\* panics; the hops below call it only with err != nil.)
IsNetworkError(err) ==
    LET parsed == FromError(err)
    IN \/ \E p \in NetworkPhrases : Contains(Text(err), p)
       \/ parsed.id = "go.micro.client" /\ parsed.code = 500
          /\ parsed.detail = Str(<<"not found">>)

IsContextCanceled(err) == err # NilError /\ Contains(Text(err), "context canceled")

\* What a caller learns from IsNetworkError: err.Error() on a nil error and
\* parsed.Id on a nil *Error from FromError are nil dereferences.
Classify(err) ==
    IF err = NilError \/ FromError(err) = NilError THEN "panic"
    ELSE IF IsNetworkError(err) THEN "network" ELSE "other"

-----------------------------------------------------------------------------
(***************************************************************************)
(* The chain of services.                                                  *)
(***************************************************************************)
VARIABLES
    sent,  \* the error the bottom service's handler returned
    hops   \* hops[h]: what the h-th service above received and made of it

vars == <<sent, hops>>

\* What the bottom handler may return: an error built by the package, a
\* plain error (context errors among them), a nil *Error returned as an
\* error, or one of these wrapped with %w.
Built ==
    {App(New(i, s, d, c)) : i \in Ids, s \in Sources, d \in Details, c \in Codes}
    \cup {App(StatusError(i, d, c)) : i \in Ids, d \in Details, c \in ConstructorCodes}
    \cup {App(ValidationError(i, s, d)) : i \in Ids, s \in Sources, d \in Details}
    \cup {App(AppError(ec, a)) : ec \in AppCodes, a \in {<<>>} \cup {<<d>> : d \in Details}}
    \cup {[t |-> "plain", text |-> Str(<<d>>)] : d \in Details}
Raised ==
    Built \cup {[t |-> "nilapp"]}
    \cup {[t |-> "wrap", prefix |-> p, inner |-> e] : p \in Prefixes, e \in Built}

\* How an error reaches the service above: in process as the same value;
\* over gRPC as a status error carrying err.Error(); or as bare text.
Transmit(how, err) ==
    CASE how = "inproc" -> err
      [] how = "grpc"   -> [t |-> "status", msg |-> Text(err)]
      [] how = "text"   -> [t |-> "plain", text |-> Text(err)]

Init ==
    /\ sent \in Raised
    /\ hops = <<>>

(* A service above receives the error of the one below, classifies it and *)
(* returns errors.FromError(err), a non-nil *Error, upstream.              *)
Hop ==
    /\ Len(hops) < MaxHops
    /\ LET below == IF hops = <<>> THEN sent ELSE App(hops[Len(hops)].got)
       IN \E how \in Transports :
            LET err == Transmit(how, below)
            IN hops' = Append(hops, [via |-> how, err |-> err,
                                     got |-> FromError(err),
                                     net |-> Classify(err),
                                     canceled |-> IsContextCanceled(err)])
    /\ UNCHANGED sent

\* The error has reached the top of the chain.
Delivered ==
    /\ Len(hops) = MaxHops
    /\ UNCHANGED vars

Next == Hop \/ Delivered

Spec == Init /\ [][Next]_vars

-----------------------------------------------------------------------------
ErrorFields == {"id", "code", "source", "detail", "status"}

TypeOK ==
    /\ sent \in Raised
    /\ Len(hops) \in 0..MaxHops
    /\ \A h \in 1..Len(hops) :
         /\ hops[h].via \in Transports
         /\ hops[h].got # NilError /\ DOMAIN hops[h].got = ErrorFields
         /\ hops[h].net \in {"network", "other"}
         /\ hops[h].canceled \in BOOLEAN

(* The error propagates unchanged: an *Error the bottom handler built      *)
(* reaches the first service above with every field (Error() marshals all  *)
(* five, Parse and the status branch of FromError read them back), and    *)
(* no later hop, whatever the transport, changes what FromError returns.   *)
ErrorPropagatesUnchanged ==
    \A h \in 1..Len(hops) :
       /\ hops[h].got = hops[1].got
       /\ sent.t = "app" => hops[1].got = sent.e

\* Sentinels a caller compares against with errors.Equal.
Sentinels == {App(StatusError("sentinel", "sentinel", c)) : c \in ConstructorCodes}

(* Every hop classifies the error as the bottom service would: the same    *)
(* answer from IsNetworkError (retry or not), from IsContextCanceled, and  *)
(* from errors.Equal of FromError's result against each sentinel.          *)
ClassificationKept ==
    \A h \in 1..Len(hops) :
       /\ hops[h].net = Classify(sent)
       /\ hops[h].canceled = IsContextCanceled(sent)
       /\ sent.t # "nilapp" =>
            \A x \in Sentinels : Equal(App(hops[h].got), x) = Equal(sent, x)
=============================================================================

------------------------------- MODULE Cookies -------------------------------
(***************************************************************************)
(* The cookie helpers of src/cookies/helper.go between a server and a     *)
(* client that may send back any cookie it can build.  The server writes  *)
(* plain, signed (HMAC-SHA256 prefix) and encrypted (AES-GCM, nonce       *)
(* prefix) cookies and reads them back by name.                            *)
(*                                                                         *)
(* Names and values are strings over Sym.  The cryptography is ideal: a    *)
(* MAC or a sealed box is a token only the server makes (the secret key    *)
(* is the server's), and a token is one symbol long: sha256.Size and the   *)
(* GCM nonce size are scaled to one.  base64 is a bijection the client    *)
(* can compute too, so the jar holds the decoded bytes; a cookie that is   *)
(* not valid base64 is the value Junk.                                     *)
(***************************************************************************)
EXTENDS Naturals, Sequences, FiniteSets, SequencesExt

CONSTANTS
    Sym,          \* the bytes names and values are made of, Colon among them
    Colon,        \* the byte ':'
    Names,        \* cookie names the server uses (strings over Sym)
    MaxLen,       \* longest value written or forged
    MaxCookieLen, \* the 4096-byte limit of Write, scaled
    MaxWrites,    \* bound on the server's writes
    Junk          \* model value: a cookie value that is not base64

ASSUME Colon \in Sym /\ Names \subseteq Seq(Sym)

Strings == BoundedSeq(Sym, MaxLen)

VARIABLES
    jar,      \* the cookies the client holds: [name, content] records
    written,  \* what the server wrote: [kind, name, value] records
    nonces,   \* nonces drawn so far (the server's writes of encrypted cookies)
    lastRead  \* the server's last successful read: [kind, name, value], or Junk

vars == <<jar, written, nonces, lastRead>>

Init ==
    /\ jar = {}
    /\ written = {}
    /\ nonces = 0
    /\ lastRead = Junk

\* Length of the base64 (URL, padded) encoding of n bytes.
B64Len(n) == 4 * ((n + 2) \div 3)

\* The MAC of a byte string under the server's key.
Mac(s) == [mac |-> s]

(* Write: base64-encode the value, refuse a cookie longer than the limit, *)
(* else set it on the response (the client stores it).                    *)
Write(kind, name, value, content) ==
    /\ Len(name) + 1 + B64Len(Len(content)) <= MaxCookieLen
    /\ jar' = jar \cup {[name |-> name, content |-> content]}
    /\ written' = written \cup {[kind |-> kind, name |-> name, value |-> value]}

\* The server may write another cookie.
CanWrite == Cardinality(written) < MaxWrites

WritePlain ==
    /\ CanWrite
    /\ \E n \in Names, v \in Strings : Write("plain", n, v, v)
    /\ UNCHANGED <<nonces, lastRead>>

(* WriteSigned: prefix the value with HMAC(key, name || value).            *)
WriteSigned ==
    /\ CanWrite
    /\ \E n \in Names, v \in Strings : Write("signed", n, v, <<Mac(n \o v)>> \o v)
    /\ UNCHANGED <<nonces, lastRead>>

(* WriteEncrypted: a fresh nonce, then nonce || Seal(name ":" value).      *)
WriteEncrypted ==
    /\ CanWrite
    /\ \E n \in Names, v \in Strings :
         LET box == [nonce |-> nonces, pt |-> n \o <<Colon>> \o v]
         IN Write("encrypted", n, v, <<[nonce |-> nonces], [sealed |-> box]>>)
    /\ nonces' = nonces + 1
    /\ UNCHANGED lastRead

\* The opaque parts of the cookies the client holds (MACs, nonces, boxes).
Tokens == UNION {ToSet(e.content) : e \in jar} \ Sym

\* What the client can send as a cookie's bytes: a cookie it holds, any
\* string, any token followed by any string or by a token, or non-base64.
Forged ==
    {e.content : e \in jar} \cup Strings
      \cup {<<t>> \o v : t \in Tokens, v \in Strings}
      \cup {<<t, u>> : t, u \in Tokens}
      \cup {Junk}

(* Read: the request's cookie, base64-decoded; not base64 -> ErrInvalidValue. *)
Read(c) == c # Junk

ReadPlain ==
    /\ \E n \in Names, c \in Forged :
         /\ Read(c)
         /\ lastRead' = [kind |-> "plain", name |-> n, value |-> c]
    /\ UNCHANGED <<jar, written, nonces>>

(* ReadSigned: at least sha256.Size bytes, split signature || value, and   *)
(* accept if HMAC(key, name || value) equals the signature.                *)
ReadSigned ==
    /\ \E n \in Names, c \in Forged :
         /\ Read(c)
         /\ Len(c) >= 1
         /\ c[1] = Mac(n \o Tail(c))
         /\ lastRead' = [kind |-> "signed", name |-> n, value |-> Tail(c)]
    /\ UNCHANGED <<jar, written, nonces>>

\* aesGCM.Open(nonce, ct): the plaintext of a box sealed with that nonce.
Opens(nonce, ct) ==
    /\ Len(ct) = 1
    /\ ct[1] \notin Sym /\ DOMAIN ct[1] = {"sealed"}
    /\ nonce = [nonce |-> ct[1].sealed.nonce]

(* ReadEncrypted: at least NonceSize bytes, split nonce || ciphertext,    *)
(* Open, cut the plaintext at its first ':' and accept if the part before *)
(* it is the cookie's name.                                                *)
ReadEncrypted ==
    /\ \E n \in Names, c \in Forged :
         /\ Read(c)
         /\ Len(c) >= 1
         /\ Opens(c[1], Tail(c))
         /\ LET pt == Tail(c)[1].sealed.pt
                i  == SelectInSeq(pt, LAMBDA x : x = Colon)
            IN /\ i > 0
               /\ SubSeq(pt, 1, i - 1) = n
               /\ lastRead' = [kind |-> "encrypted", name |-> n,
                               value |-> SubSeq(pt, i + 1, Len(pt))]
    /\ UNCHANGED <<jar, written, nonces>>

Next ==
    \/ WritePlain \/ WriteSigned \/ WriteEncrypted
    \/ ReadPlain \/ ReadSigned \/ ReadEncrypted

Spec == Init /\ [][Next]_vars

-----------------------------------------------------------------------------
(* A signed cookie is authentic: whatever ReadSigned returns for a name,  *)
(* the server wrote with WriteSigned under that name (HMAC over the name  *)
(* and the value binds the two).                                           *)
SignedCookiesAuthentic ==
    lastRead # Junk /\ lastRead.kind = "signed" => lastRead \in written
=============================================================================

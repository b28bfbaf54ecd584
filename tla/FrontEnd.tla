------------------------------- MODULE FrontEnd -------------------------------
(***************************************************************************)
(* The public HTTP handler (internal/handlers/gateway/handler.go): it      *)
(* splits the URL path into service, API method and remainder, reads the   *)
(* body, hands a ProcessRequest to the processor and writes the response   *)
(* the processor returns.                                                  *)
(*                                                                         *)
(* The path split is what the properties are about, so a URL path is a     *)
(* sequence of characters over Chars and "/".  The processor is opaque     *)
(* here (Gateway models it): it answers with some status.                  *)
(***************************************************************************)
EXTENDS Naturals, Sequences, SequencesExt

CONSTANTS
    Chars,          \* path characters other than "/"
    MaxPath,        \* longest URL path, leading "/" included
    Verbs,          \* request methods a client may send
    Bodies,         \* request bodies within the 1 MiB cap; <<>> is none
    Statuses        \* status codes the processor may answer with

ASSUME FrontEndAssumption ==
    /\ "/" \notin Chars
    /\ MaxPath \in Nat \ {0}
    /\ <<>> \in Bodies

Sep == "/"

\* The URL paths net/http hands to a handler: they start with "/".
Paths == {<<Sep>> \o w : w \in BoundedSeq(Chars \cup {Sep}, MaxPath - 1)}

HTTPRequests == [path : Paths, verb : Verbs, body : Bodies]

\* domain.HTTPMethod values.
DomainMethods == {"unspecified", "get", "put", "post", "delete", "patch"}

None == [none |-> TRUE]

VARIABLES
    req,        \* the request being served, or None
    handed,     \* the ProcessRequest given to processor.Process, or None
    written     \* the status written to the client, 0 before

vars == <<req, handed, written>>

ProcessRequests ==
    [service : Seq(Chars \cup {Sep}), method : Seq(Chars \cup {Sep}),
     path : Seq(Chars \cup {Sep}), http : DomainMethods, body : Bodies]

TypeOK ==
    /\ req \in HTTPRequests \cup {None}
    /\ handed \in ProcessRequests \cup {None}
    /\ written \in Statuses \cup {0, 400}

-----------------------------------------------------------------------------
\* The positions of the separators in s, in increasing order.
Cuts(s) == SetToSortSeq({i \in 1..Len(s) : s[i] = Sep}, LAMBDA a, b : a < b)

\* The pieces of s between consecutive bounds of B (0 and Len(s) + 1 at
\* the ends).
Pieces(s, B) == [j \in 1..Len(B) - 1 |-> SubSeq(s, B[j] + 1, B[j + 1] - 1)]

\* Mutant: strings.Split, i.e. SplitN with no limit.
SplitIgnoringLimit(s, n) ==
    Pieces(s, <<0>> \o Cuts(s) \o <<Len(s) + 1>>)

\* strings.SplitN(s, "/", n) for n > 0: at most n pieces, the last one
\* holding the rest of s, separators included.
SplitN(s, n) ==
    LET C == Cuts(s)
        k == IF Len(C) < n - 1 THEN Len(C) ELSE n - 1
    IN  Pieces(s, <<0>> \o SubSeq(C, 1, k) \o <<Len(s) + 1>>)

\* strings.TrimPrefix(p, "/").
TrimSep(p) == IF p # <<>> /\ p[1] = Sep THEN Tail(p) ELSE p

\* readBody (lines 61-75).  net/http never gives a server handler a nil
\* body, so the early return of line 62 is always taken.
ReadBody(b) == <<>>

\* httpMethodToDomain (lines 92-107).
HTTPMethodToDomain(v) ==
    CASE v = "GET" -> "get" [] v = "PUT" -> "put" [] v = "POST" -> "post"
      [] v = "DELETE" -> "delete" [] v = "PATCH" -> "patch"
      [] OTHER -> "unspecified"

-----------------------------------------------------------------------------
Init ==
    /\ req = None
    /\ handed = None
    /\ written = 0

\* A client sends a request.
Receive ==
    /\ req = None
    /\ \E r \in HTTPRequests : req' = r
    /\ UNCHANGED <<handed, written>>

\* Lines 20-24: fewer than three pieces; 400 "Invalid path".
RejectPath ==
    /\ req # None /\ handed = None /\ written = 0
    /\ Len(SplitN(TrimSep(req.path), 3)) <= 2
    /\ written' = 400
    /\ UNCHANGED <<req, handed>>

\* Lines 26-49: the pieces become service, API method and path, the body
\* is read, and the request goes to the processor.
Forward ==
    /\ req # None /\ handed = None /\ written = 0
    /\ LET parts == SplitN(TrimSep(req.path), 3) IN
       /\ Len(parts) > 2
       /\ handed' = [service |-> parts[1], method |-> parts[2],
                     path |-> IF Len(parts) = 3 THEN parts[3] ELSE <<>>,
                     http |-> HTTPMethodToDomain(req.verb),
                     body |-> ReadBody(req.body)]
    /\ UNCHANGED <<req, written>>

\* Lines 50-57: the processor's headers, status and body are written.
Respond ==
    /\ handed # None /\ written = 0
    /\ \E s \in Statuses : written' = s
    /\ UNCHANGED <<req, handed>>

\* The connection takes its next request.
Done ==
    /\ written # 0
    /\ req' = None /\ handed' = None /\ written' = 0

Next == Receive \/ RejectPath \/ Forward \/ Respond \/ Done

Spec == Init /\ [][Next]_vars

-----------------------------------------------------------------------------
(* Properties.                                                             *)

\* The split loses nothing: the service, the API method and the remainder
\* the processor receives rebuild the URL path, whatever separators the
\* remainder holds (SplitN with limit 3 and the length check of line 30).
PathRoundTrip ==
    handed # None =>
        <<Sep>> \o handed.service \o <<Sep>> \o handed.method \o <<Sep>>
            \o handed.path = req.path

\* spec.md 6 gives the path shape /<service>/<api_method>[/<remainder>] and
\* example 1 of spec.md 8 has GET /greet/hello reach the backend: a path
\* of a non-empty service and API method alone is not refused by the
\* front end.
ShapeAccepted ==
    written = 400 /\ handed = None =>
        ~\E i \in 3..Len(req.path) - 1 :
            /\ req.path[i] = Sep
            /\ \A j \in 2..Len(req.path) : j # i => req.path[j] # Sep

\* spec.md 6 and 9: the body, up to the 1 MiB cap, is read and forwarded.
BodyForwarded ==
    handed # None => handed.body = req.body

=============================================================================

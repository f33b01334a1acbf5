----------------------------- MODULE RulebookFetch -----------------------------
(***************************************************************************)
(* The guarded download of a rulebook (RulebookFetcher.fetch): the name of *)
(* the host is resolved in a thread that holds one of a few slots, the     *)
(* addresses are tried in order until one answers with a redirect, a status*)
(* worth a retry, a failure or a body; the body goes to a partial file, is *)
(* verified and published under its digest without replacing anything.  One*)
(* deadline covers all of it.  Fetches of the update worker and of requests*)
(* run at the same time.                                                   *)
(***************************************************************************)
EXTENDS Integers, Sequences, FiniteSets, SequencesExt

CONSTANTS Fetch,            \* fetches that run at the same time
          Address,          \* [host, scheme, name]: URLs that redirects may name
          Body,             \* [size, pdf, id]: what servers may send
          Slots,            \* _resolution_slots
          MaxAddresses,     \* bound of the addresses a name may have
          MaxRedirects, MaxRetries, MaxBytes,    \* the policy
          MaxFetches        \* bound

ASSUME FetchConstants ==
  /\ IsFiniteSet(Fetch) /\ MaxAddresses \in Nat \ {0}
  /\ {Slots, MaxRedirects, MaxRetries, MaxBytes, MaxFetches} \subseteq Nat

VARIABLES
  fetching,   \* what each fetch is doing
  slots, orphans,   \* free slots; those of threads whose caller stopped waiting
  manuals,    \* the published files
  parts,      \* the partial files in the directory, by the number of their fetch
  strays,     \* history: those whose process died, or could not remove them
  started     \* fetches begun
fetchVars == <<fetching, slots, orphans, manuals, parts, strays, started>>

\* A file is named by the digest of the bytes that were read: of which body,
\* and how many.
Digest == {<<b, n>> : b \in Body, n \in 1..MaxBytes}
Quiet == [phase |-> "quiet"]

Running(f) == fetching[f].phase \notin {"quiet", "stored", "failed"}
Resolving == {f \in Fetch : fetching[f].phase = "resolving"}

FetchInit ==
  /\ fetching = [f \in Fetch |-> Quiet] /\ slots = Slots /\ orphans = 0
  /\ manuals = [d \in Digest |-> "absent"] /\ parts = {} /\ strays = {} /\ started = 0

-----------------------------------------------------------------------------
Step(f, record) == fetching' = [fetching EXCEPT ![f] = record]

Reading(f) == fetching[f].phase \in {"read", "commit"}

\* The requests sent, with the one that is under way.
Requested(f) == fetching[f].requests + (IF fetching[f].phase = "request" THEN 1 ELSE 0)

\* The partial file is removed; when that fails the error is ignored.
Discard(f) ==
  IF ~Reading(f) THEN UNCHANGED <<parts, strays>>
  ELSE LET file == {fetching[f].number}
       IN \/ parts' = parts \ file /\ UNCHANGED strays
          \/ strays' = strays \cup file /\ UNCHANGED parts

\* Every failure closes the response and discards the partial file.
Abort(f) == Step(f, [phase |-> "failed", requests |-> Requested(f)]) /\ Discard(f)

BeginFetch(f, a) ==
  /\ fetching[f] = Quiet /\ started < MaxFetches
  /\ Step(f, [phase |-> "resolve", url |-> a, visited |-> <<a>>, retries |-> 0, untried |-> 0,
              requests |-> 0, late |-> FALSE, number |-> started + 1])
  /\ started' = started + 1
  /\ UNCHANGED <<slots, orphans, manuals, parts, strays>>

\* The result is taken, the next fetch may begin.
EndFetch(f) ==
  /\ fetching[f].phase \in {"stored", "failed"}
  /\ Step(f, Quiet)
  /\ UNCHANGED <<slots, orphans, manuals, parts, strays, started>>

-----------------------------------------------------------------------------
(* Resolving the name *)

\* n addresses are known: they are tried one after the other.
ToRequest(f, n) == Step(f, [fetching[f] EXCEPT !.phase = "request", !.untried = n])

\* A name waits for a slot; an address needs none.
ResolveName(f) ==
  /\ fetching[f].phase = "resolve" /\ ~fetching[f].late
  /\ IF fetching[f].url.name
     THEN slots > 0 /\ slots' = slots - 1 /\ fetching' = [fetching EXCEPT ![f].phase = "resolving"]
     ELSE ToRequest(f, 1) /\ UNCHANGED slots
  /\ UNCHANGED <<orphans, manuals, parts, strays, started>>

\* The thread releases its slot whatever the answer is: addresses, none, one that
\* is not public, or an error.
NameAnswered(f) ==
  /\ fetching[f].phase = "resolving" /\ ~fetching[f].late
  /\ \/ (\E n \in 1..MaxAddresses : ToRequest(f, n)) /\ UNCHANGED <<parts, strays>>
     \/ Abort(f)
  /\ slots' = slots + 1
  /\ UNCHANGED <<orphans, manuals, started>>

\* Mutant: the slot is given back when the caller stops waiting.
TimeOutReleased(f) ==
  /\ Running(f) /\ fetching[f].late /\ fetching[f].phase # "commit"
  /\ Abort(f)
  /\ LET held == IF f \in Resolving THEN 1 ELSE 0
     IN orphans' = orphans + held /\ slots' = slots + held
  /\ UNCHANGED <<manuals, started>>

\* The deadline ends every wait; the thread that resolves keeps its slot.
TimeOut(f) ==
  /\ Running(f) /\ fetching[f].late /\ fetching[f].phase # "commit"
  /\ Abort(f)
  /\ orphans' = orphans + (IF f \in Resolving THEN 1 ELSE 0)
  /\ UNCHANGED <<slots, manuals, started>>

OrphanReturns ==
  /\ orphans > 0 /\ orphans' = orphans - 1 /\ slots' = slots + 1
  /\ UNCHANGED <<fetching, manuals, parts, strays, started>>

DeadlinePasses(f) ==
  /\ Running(f) /\ ~fetching[f].late
  /\ fetching' = [fetching EXCEPT ![f].late = TRUE]
  /\ UNCHANGED <<slots, orphans, manuals, parts, strays, started>>

-----------------------------------------------------------------------------
(* The request and its answer *)

Sending(f) == fetching[f].phase = "request" /\ ~fetching[f].late
Asked(f) == [fetching[f] EXCEPT !.requests = Requested(f)]

\* The connection, its TLS or the reading of the answer fails: the request is sent
\* to the next address.
AddressFails(f) ==
  /\ Sending(f) /\ fetching[f].untried > 1
  /\ Step(f, [Asked(f) EXCEPT !.untried = @ - 1])
  /\ UNCHANGED <<slots, orphans, manuals, parts, strays, started>>

\* So does the last address; or an answer has a status that is refused, a redirect
\* without target or of a form that is not allowed, an encoding, type or declared
\* length that is refused: all before a file is created.
RequestFails(f) ==
  /\ Sending(f) /\ Abort(f)
  /\ UNCHANGED <<slots, orphans, manuals, started>>

\* Too many redirects, a downgrade, or a URL that was visited ends the chain.
Redirected(f, a) ==
  LET s == fetching[f]
      ends == \/ Len(s.visited) > MaxRedirects
              \/ s.url.scheme = "https" /\ a.scheme = "http"
              \/ a \in Range(s.visited)
  IN /\ Sending(f)
     /\ \/ ends /\ Abort(f)
        \/ /\ ~ends
           /\ Step(f, [Asked(f) EXCEPT !.url = a, !.visited = Append(@, a), !.retries = 0,
                                        !.untried = 0, !.phase = "resolve"])
           /\ UNCHANGED <<parts, strays>>
     /\ UNCHANGED <<slots, orphans, manuals, started>>

\* A busy server is asked again, if the deadline leaves time for the delay.
Retry(f) ==
  /\ Sending(f)
  /\ IF fetching[f].retries < MaxRetries
     THEN /\ Step(f, [Asked(f) EXCEPT !.retries = @ + 1, !.untried = 0, !.phase = "resolve"])
          /\ UNCHANGED <<parts, strays>>
     ELSE Abort(f)
  /\ UNCHANGED <<slots, orphans, manuals, started>>

\* declared is 0 if there is no Content-Length; the connection may be cut after
\* "sent" bytes, which only a declared length shows.
BodyBegins(f, b, declared, sent) ==
  /\ Sending(f)
  /\ declared <= MaxBytes /\ sent <= b.size
  /\ Step(f, [phase |-> "read", body |-> b, declared |-> declared, sent |-> sent, read |-> 0,
              requests |-> Requested(f), late |-> FALSE, number |-> fetching[f].number])
  /\ parts' = parts \cup {fetching[f].number}
  /\ UNCHANGED <<slots, orphans, manuals, strays, started>>

-----------------------------------------------------------------------------
(* The body *)

ReadChunk(f) ==
  /\ fetching[f].phase = "read" /\ ~fetching[f].late
  /\ fetching[f].read < fetching[f].sent
  /\ IF fetching[f].read + 1 > MaxBytes THEN Abort(f)
     ELSE fetching' = [fetching EXCEPT ![f].read = @ + 1] /\ UNCHANGED <<parts, strays>>
  /\ UNCHANGED <<slots, orphans, manuals, started>>

ReadFails(f) ==
  /\ fetching[f].phase = "read"
  /\ Abort(f)
  /\ UNCHANGED <<slots, orphans, manuals, started>>

\* Mutant: the declared length is not compared with what was read.
VerifyBodyUnsized(f) ==
  LET s == fetching[f]
  IN /\ s.phase = "read" /\ ~s.late /\ s.read = s.sent
     /\ IF s.read = 0 \/ ~s.body.pdf THEN Abort(f)
        ELSE Step(f, [s EXCEPT !.phase = "commit"]) /\ UNCHANGED <<parts, strays>>
     /\ UNCHANGED <<slots, orphans, manuals, started>>

VerifyBody(f) ==
  LET s == fetching[f]
  IN /\ s.phase = "read" /\ ~s.late /\ s.read = s.sent
     /\ IF s.read = 0 \/ (s.declared # 0 /\ s.read # s.declared) \/ ~s.body.pdf THEN Abort(f)
        ELSE Step(f, [s EXCEPT !.phase = "commit"]) /\ UNCHANGED <<parts, strays>>
     /\ UNCHANGED <<slots, orphans, manuals, started>>

Name(f) == <<fetching[f].body, fetching[f].read>>

Stored(f) == Step(f, [phase |-> "stored", file |-> Name(f), declared |-> fetching[f].declared,
                      requests |-> fetching[f].requests])

Published(f) == [manuals EXCEPT ![Name(f)] = "whole"]

\* Published without replacing: an existing file, found before the rename or by
\* it, is used if its bytes are those of its name.
CommitFile(f) ==
  LET gone == parts' = parts \ {fetching[f].number} /\ UNCHANGED strays
  IN /\ fetching[f].phase = "commit"
     /\ CASE manuals[Name(f)] = "absent" -> Stored(f) /\ gone /\ manuals' = Published(f)
          [] manuals[Name(f)] = "whole" -> Stored(f) /\ gone /\ UNCHANGED manuals
          [] OTHER -> Abort(f) /\ UNCHANGED manuals
     /\ UNCHANGED <<slots, orphans, started>>

\* Where a rename cannot refuse to replace, the file is linked to its name and
\* unlinked: what fails, or dies, after the link has published the file.
Linked(f) == fetching[f].phase = "commit" /\ manuals[Name(f)] = "absent"

CommitFails(f) ==
  /\ fetching[f].phase = "commit" /\ Abort(f)
  /\ \/ UNCHANGED manuals
     \/ Linked(f) /\ manuals' = Published(f)
  /\ UNCHANGED <<slots, orphans, started>>

-----------------------------------------------------------------------------
(* Environment *)

Damage(d) ==
  /\ manuals[d] = "whole"
  /\ manuals' = [manuals EXCEPT ![d] = "damaged"]
  /\ UNCHANGED <<fetching, slots, orphans, parts, strays, started>>

\* The process dies: its partial files stay, and no start removes them.
CrashFetches ==
  /\ \E f \in Fetch : Running(f)
  /\ fetching' = [f \in Fetch |-> Quiet] /\ orphans' = 0 /\ slots' = Slots
  /\ strays' = strays \cup parts
  /\ \E linked \in SUBSET {f \in Fetch : Linked(f)} :
       manuals' = [d \in Digest |-> IF \E f \in linked : d = Name(f) THEN "whole" ELSE manuals[d]]
  /\ UNCHANGED <<parts, started>>

FetchStep(f) ==
  \/ ResolveName(f) \/ NameAnswered(f) \/ TimeOut(f)
  \/ AddressFails(f) \/ RequestFails(f) \/ Retry(f)
  \/ \E a \in Address : Redirected(f, a)
  \/ \E b \in Body, declared \in 0..MaxBytes, sent \in 0..(MaxBytes + 1) : BodyBegins(f, b, declared, sent)
  \/ ReadChunk(f) \/ ReadFails(f) \/ VerifyBody(f) \/ CommitFile(f) \/ CommitFails(f)

FetchNext ==
  \/ \E f \in Fetch : \/ \E a \in Address : BeginFetch(f, a)
                      \/ FetchStep(f) \/ DeadlinePasses(f) \/ EndFetch(f)
  \/ OrphanReturns \/ CrashFetches
  \/ \E d \in Digest : Damage(d)

FetchSpec == FetchInit /\ [][FetchNext]_fetchVars

\* Calls return or time out, and the deadline passes; the operating system's
\* resolver owes nothing.
FetchFairness ==
  \A f \in Fetch : WF_fetchVars(FetchStep(f)) /\ WF_fetchVars(DeadlinePasses(f))

-----------------------------------------------------------------------------
(* Properties *)

(* What a fetch uses is bounded and given back: no more threads than slots *)
(* resolve names, whoever stopped waiting for them; a partial file belongs *)
(* to a fetch that reads it, or to one that died or could not remove it;   *)
(* and neither redirects that reset the retries nor addresses that fail    *)
(* make the requests of one fetch unbounded.                               *)
FetchResources ==
  /\ Cardinality(Resolving) + orphans + slots = Slots
  /\ parts \subseteq strays \cup {fetching[f].number : f \in {g \in Fetch : Reading(g)}}
  /\ \A f \in Fetch : fetching[f] # Quiet =>
       fetching[f].requests <= (MaxRedirects + 1) * (MaxRetries + 1) * MaxAddresses

(* A fetch that reports a file has stored a PDF under its digest, whole and*)
(* of the length that the server declared, whichever fetch published it    *)
(* and although another one may find it damaged.                           *)
StoredIsFetched ==
  [][\A f \in Fetch : fetching[f].phase # "stored" /\ fetching'[f].phase = "stored" =>
       LET file == fetching'[f].file
       IN /\ manuals'[file] = "whole" /\ file[1].pdf
          /\ fetching'[f].declared \in {0, file[2]}]_fetchVars

(* Every fetch ends, even when all slots are held by threads that never    *)
(* return.                                                                 *)
FetchEnds == \A f \in Fetch : []<>~Running(f)

=============================================================================

------------------------------- MODULE Mailbox -------------------------------
(***************************************************************************)
(* What the reporting interface for web pages promises to the page, told   *)
(* without timers, limits and answers: a box with a number for every key.  *)
(* The page adds to a number or sets it.  A request takes the numbers of   *)
(* all keys out of the box, but of only one of the lists of logs           *)
(* (Sources), and it takes them whole.  While a request is under way the   *)
(* box is busy and no report of the page sends another one.                *)
(***************************************************************************)
EXTENDS Naturals

CONSTANTS Keys, Sources, Amounts

VARIABLES
  pend,     \* the numbers in the box
  busy,     \* a request is under way
  watched   \* requests are noted as under way; the first may not be

boxVars == <<pend, busy, watched>>

Init ==
  /\ pend = [k \in Keys |-> 0]
  /\ busy = FALSE
  /\ watched \in BOOLEAN

(* The box p after the page added n to a key, or set it to n. *)
Reported(p, k, n) == {[p EXCEPT ![k] = @ + n], [p EXCEPT ![k] = n]}

(* The box p after a request took its contents, and the logs of src. *)
Rest(p, src) == [k \in Keys |-> IF k \in Sources \ {src} THEN p[k] ELSE 0]

Put(k, n) ==
  /\ pend' \in Reported(pend, k, n)
  /\ UNCHANGED <<busy, watched>>

Request(p, src) ==
  /\ pend' = Rest(p, src)
  /\ busy' = watched
  /\ watched' = TRUE

Take(src) == ~busy /\ Request(pend, src)

PutAndTake(k, n, src) == ~busy /\ \E p \in Reported(pend, k, n) : Request(p, src)

(* An answer, or none for too long. *)
Release == busy /\ busy' = FALSE /\ UNCHANGED <<pend, watched>>

ReleaseAndTake(src) == busy /\ Request(pend, src)

Next ==
  \/ \E k \in Keys, n \in Amounts : Put(k, n)
  \/ \E src \in Sources : Take(src) \/ ReleaseAndTake(src)
  \/ \E k \in Keys, n \in Amounts, src \in Sources : PutAndTake(k, n, src)
  \/ Release

Spec == Init /\ [][Next]_boxVars
====

---------------------------- MODULE EventStream ----------------------------
(***************************************************************************)
(* What durable delivery promises to a device: a cursor over one log.  The *)
(* device takes an event that is addressed to it when it has everything    *)
(* before it that it is entitled to and that the log still holds, or has   *)
(* emptied its store to load a snapshot instead; only then may it save the *)
(* event's number.  A snapshot brings everything up to its own number; one *)
(* that fails to load may leave the number saved and the store empty.      *)
(* Polls, subscriptions, queues, sockets and acknowledgements are not part *)
(* of it.  Realtime implements this.                                       *)
(***************************************************************************)
EXTENDS Naturals

CONSTANTS Sessions

VARIABLES
    last, rows,  \* the log: its last number, the numbers it still holds
    to,          \* whom an event is addressed to
    due,         \* who is still entitled to it
    saved,       \* number a device starts from when it comes back
    known,       \* what it has applied or loaded
    awaited      \* what it gave up for a snapshot that has not loaded

log == <<last, rows, to, due>>
device == <<saved, known, awaited>>
streamVars == <<log, device>>

Init ==
    /\ last = 0 /\ rows = {}
    /\ to \in [1..last -> SUBSET Sessions] /\ due \in [1..last -> SUBSET Sessions]
    /\ saved = [s \in Sessions |-> 0]
    /\ known = [s \in Sessions |-> {}] /\ awaited = [s \in Sessions |-> {}]

(* A transaction commits; who leaves loses the right to older events.      *)
Append ==
    /\ last' \in Nat /\ last' > last
    /\ rows' = rows \cup (last + 1)..last'
    /\ \A n \in 1..last : to'[n] = to[n] /\ due'[n] \subseteq due[n]
    /\ \A n \in (last + 1)..last' : due'[n] \subseteq to'[n]
    /\ UNCHANGED device

Prune ==
    /\ rows' \subseteq rows
    /\ UNCHANGED <<last, to, due, device>>

(* With K a device has, or has given up, all it is owed up to n.           *)
Whole(s, n, K) == \A m \in rows : m <= n /\ s \in due[m] => m \in K \cup awaited[s]

(* An event arrives for the first time or again.                           *)
Receive(s, n) ==
    /\ s \in to[n]
    /\ \E K \in {known[s], known[s] \cup {n}}, c \in {saved[s], n} :
          /\ Whole(s, n, K)
          /\ known' = [known EXCEPT ![s] = K]
          /\ saved' = [saved EXCEPT ![s] = c]
    /\ UNCHANGED <<log, awaited>>

(* The device is told to start over from n.                                *)
Empty(s, n) ==
    /\ awaited' = [awaited EXCEPT ![s] = @ \cup 1..n]
    /\ UNCHANGED <<log, saved, known>>

Load(s, n) ==
    /\ 1..n \subseteq awaited[s]
    /\ known' = [known EXCEPT ![s] = @ \cup 1..n]
    /\ saved' = [saved EXCEPT ![s] = n]
    /\ \E A \in SUBSET awaited[s] :
          awaited[s] \subseteq A \cup 1..n /\ awaited' = [awaited EXCEPT ![s] = A]
    /\ UNCHANGED log

(* The number is saved although the snapshot did not load.                 *)
SaveUnloaded(s, n) ==
    /\ 1..n \subseteq awaited[s]
    /\ saved' = [saved EXCEPT ![s] = n]
    /\ UNCHANGED <<log, known, awaited>>

Next ==
    \/ Append \/ Prune
    \/ \E s \in Sessions, n \in 1..last :
          Receive(s, n) \/ Empty(s, n) \/ Load(s, n) \/ SaveUnloaded(s, n)

Spec == Init /\ [][Next]_streamVars

(* No device has saved a number over an event it is still owed and has not *)
(* given up for a snapshot.                                                *)
NoGap == \A s \in Sessions : Whole(s, saved[s], known[s])
=============================================================================

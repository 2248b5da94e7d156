------------------------------- MODULE KVStore --------------------------------
(* What the replicated store promises its callers: one value per key.  A get  *)
(* or printKVPairs answers, key by key, with a value the key had at some      *)
(* instant since the request began.  A put takes effect at one instant; if    *)
(* replicas that nobody locked may answer while others are written (Gradual), *)
(* readers may see the old or the new value until the put is over.  A put     *)
(* that fails may have taken effect or not, and until the next put of its key *)
(* readers may disagree about it.  After one that was acknowledged there is   *)
(* one value in either case.  What is stored is lost only when the last       *)
(* replica is.                                                                *)
CONSTANTS Readers, Keys, Values, Absent, None, Gradual

VARIABLES
  replicated,  \* some replica is left
  store,       \* store[k]: the values the key may have
  put,         \* put[k]: the value of the put in progress, if there is one
  prior,       \* prior[k]: what the key may have had before that put
  acked,       \* acked[k]: the value of the last put, None if that put failed
  want,        \* want[t]: the keys t has asked for and not been told
  answer,      \* answer[t][k]: what t has been told of k
  seen         \* seen[t][k]: the values k had since t asked

kvVars == <<replicated, store, put, prior, acked, want, answer, seen>>

Empty == [k \in Keys |-> {Absent}]
Unset == [k \in Keys |-> Absent]
NoValues == [k \in Keys |-> {}]
NoAnswer == [k \in Keys |-> None]

Init ==
  /\ replicated = FALSE
  /\ store = Empty
  /\ put = NoValues
  /\ prior = NoValues
  /\ acked = Unset
  /\ want = [t \in Readers |-> {}]
  /\ answer = [t \in Readers |-> NoAnswer]
  /\ seen = [t \in Readers |-> NoValues]

\* Every reader watches the keys it wants.
Watch ==
  seen' = [t \in Readers |-> [k \in Keys |->
             IF k \in want'[t] THEN seen[t][k] \cup store'[k] ELSE {}]]

\* Without a replica a put changes nothing.
Store(k, S) == store' = IF replicated THEN [store EXCEPT ![k] = S] ELSE store

Write(k, v) ==
  /\ put[k] = {}
  /\ put' = [put EXCEPT ![k] = {v}]
  /\ prior' = [prior EXCEPT ![k] = store[k]]
  /\ Store(k, IF Gradual THEN store[k] \cup {v} ELSE {v})
  /\ UNCHANGED <<replicated, acked, want, answer>>

Close(k) ==
  /\ put[k] # {}
  /\ put' = [put EXCEPT ![k] = {}]
  /\ prior' = [prior EXCEPT ![k] = {}]
  /\ UNCHANGED <<replicated, want, answer>>

Acknowledge(k) ==
  /\ Close(k)
  /\ Store(k, put[k])
  /\ \E v \in put[k] : acked' = [acked EXCEPT ![k] = v]

Fail(k) ==
  /\ Close(k)
  /\ \E S \in (SUBSET (store[k] \cup prior[k])) \ {{}} :
       store' = [store EXCEPT ![k] = S]
  /\ acked' = [acked EXCEPT ![k] = None]

\* A replica leaves, and with it one outcome of the puts that failed.
Settle ==
  /\ store' \in [Keys -> (SUBSET (Values \cup {Absent})) \ {{}}]
  /\ \A k \in Keys : store'[k] \subseteq store[k]
  /\ UNCHANGED <<replicated, put, prior, acked, want, answer>>

Lose ==
  /\ replicated /\ put = NoValues
  /\ replicated' = FALSE
  /\ store' = Empty
  /\ UNCHANGED <<put, prior, acked, want, answer>>

FirstReplica ==
  /\ ~replicated /\ put = NoValues
  /\ replicated' = TRUE
  /\ acked' = Unset
  /\ UNCHANGED <<store, put, prior, want, answer>>

Ask(t, K) ==
  /\ want[t] = {}
  /\ want' = [want EXCEPT ![t] = K]
  /\ UNCHANGED <<replicated, store, put, prior, acked, answer>>

Tell(t, k) ==
  /\ k \in want[t]
  /\ \E v \in seen[t][k] : answer' = [answer EXCEPT ![t][k] = v]
  /\ want' = [want EXCEPT ![t] = @ \ {k}]
  /\ UNCHANGED <<replicated, store, put, prior, acked>>

\* Answered in full, or given up with an error.
Finish(t) ==
  /\ want' = [want EXCEPT ![t] = {}]
  /\ answer' = [answer EXCEPT ![t] = NoAnswer]
  /\ UNCHANGED <<replicated, store, put, prior, acked>>

Next ==
  /\ \/ \E k \in Keys : Acknowledge(k) \/ Fail(k) \/ \E v \in Values : Write(k, v)
     \/ Settle \/ Lose \/ FirstReplica
     \/ \E t \in Readers :
          \/ Finish(t)
          \/ \E k \in Keys : Tell(t, k)
          \/ \E K \in SUBSET Keys : Ask(t, K)
  /\ Watch

Spec == Init /\ [][Next]_kvVars
=============================================================================

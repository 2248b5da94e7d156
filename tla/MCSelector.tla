------------------------------ MODULE MCSelector -------------------------------
(* ServerSelector.select against a reference: a registry of ids that servers   *)
(* join and leave, and every key routed over it.                                *)
EXTENDS Selector

CONSTANTS Ids, Keys

ASSUME IdsAssumption == Ids \subseteq Nat

\* The keys of the reference; negative ones are their negations.
ASSUME KeysAssumption == Keys \subseteq Nat

VARIABLE registered

Init == registered = {}

Register(s) == s \notin registered /\ registered' = registered \cup {s}
Unregister(s) == s \in registered /\ registered' = registered \ {s}

Next == \E s \in Ids : Register(s) \/ Unregister(s)

Spec == Init /\ [][Next]_registered

\* stream().sorted(): the registered ids in ascending order.
Sorted ==
  LET indices == 1 .. Cardinality(registered)
  IN CHOOSE list \in [indices -> registered] :
       \A i, j \in indices : i < j => list[i] < list[j]

\* The server a key is routed to is the element of the sorted list that the
\* code indexes: rank and remainder say the same as sorted().get(index).
SelectsFromSortedList ==
  registered # {} =>
    \A key \in Keys :
      {s \in registered : Selects(key, registered, s)}
        = {Sorted[(key % Cardinality(registered)) + 1]}

\* Consecutive keys spread over all servers: of n keys in a row each of the n
\* servers answers exactly one.
SelectsEvenly ==
  LET n == Cardinality(registered) IN
    \A first \in Keys : \A s \in registered :
      Cardinality({key \in first .. first + n - 1 : Selects(key, registered, s)}) = 1

\* A negative key has a server only if their number divides it: whether its gets
\* end in an exception changes with every server that joins or leaves.
NegativeKeysAreMultiples ==
  registered # {} =>
    \A key \in Keys :
      (\E s \in registered : Selects(-key, registered, s))
        <=> key % Cardinality(registered) = 0

=============================================================================

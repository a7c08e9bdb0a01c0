--------------------------- MODULE StreamRegistry ---------------------------
(***************************************************************************)
(* What the stream configuration of a camera promises its clients, with   *)
(* the bookkeeping left out: the device holds numbered output streams,    *)
(* each with a set of application surfaces as consumers.                   *)
(*   - a stream id is handed out once and never names a second stream;     *)
(*   - a surface is a consumer of at most one stream;                      *)
(*   - a client adds and removes only the surfaces its application owns;   *)
(*   - a client takes a stream down only when no other client's surface    *)
(*     is on it, and never a stream the device pinned for a shared         *)
(*     session (one that carries the opaque consumer), whose other         *)
(*     clients keep using it.                                              *)
(* StreamConfig implements this specification (ImplementsRegistry).        *)
(***************************************************************************)
EXTENDS FiniteSets, Functions, TLC

CONSTANTS Clients, Surfaces, Owner, StreamIds

VARIABLES
    issued,     \* the stream ids handed out so far
    consumers,  \* stream id -> the application surfaces it delivers to
    pinned      \* streams of a shared session

vars == <<issued, consumers, pinned>>

Owned(c) == {s \in Surfaces : Owner[s] = c}

\* The surfaces that are a consumer of some stream.
Attached == UNION Range(consumers)

Init ==
    /\ issued = {}
    /\ consumers = [id \in {} |-> {}]
    /\ pinned = {}

\* Client c has the device hand out fresh ids; the streams among them get
\* c's surfaces as consumers, or none (a stream of a shared session, a
\* deferred stream, a composite's internal streams, an input stream).
Issue(c) ==
    \E ids \in SUBSET (StreamIds \ issued) :
       /\ ids # {}
       /\ issued' = issued \cup ids
       /\ LET free == Owned(c) \ Attached IN
          \E streams \in SUBSET ids, newPinned \in SUBSET ids :
          \E f \in [streams -> SUBSET free] :
             /\ newPinned \subseteq {id \in streams : f[id] = {}}
             /\ \A i, j \in streams : i # j => f[i] \cap f[j] = {}
             /\ consumers' = consumers @@ f
             /\ pinned' = pinned \cup newPinned

\* Client c changes the consumers of one stream: it removes only its own
\* surfaces, and adds only its own that no stream has.
Reconfigure(c) ==
    /\ UNCHANGED <<issued, pinned>>
    /\ LET cs == consumers
           free == Owned(c) \ Attached
       IN consumers' \in
            UNION {{[cs EXCEPT ![id] = (@ \ del) \cup add] :
                       del \in SUBSET (cs[id] \cap Owned(c)), add \in SUBSET free} :
                   id \in DOMAIN cs}
    /\ consumers' # consumers

\* Client c leaves: its surfaces may go from every stream at once.
Detach(c) ==
    /\ UNCHANGED <<issued, pinned>>
    /\ LET cs == consumers IN
       consumers' \in {[id \in DOMAIN cs |-> cs[id] \ del] :
                          del \in SUBSET (UNION Range(cs) \cap Owned(c)) \ {{}}}

\* Client c takes down streams that are not pinned and carry no surface of
\* another client.
Remove(c) ==
    /\ UNCHANGED <<issued, pinned>>
    /\ LET cs == consumers IN
       consumers' \in {Restrict(cs, DOMAIN cs \ ids) :
                          ids \in {ids \in SUBSET (DOMAIN cs \ pinned) \ {{}} :
                                      \A id \in ids : cs[id] \subseteq Owned(c)}}

\* Each step hands out ids or changes consumers.  The first conjunct of each
\* disjunct compares the two states, so the formula is a relation between
\* a state and the next, the form in which StreamConfig checks it.
Next ==
    \/ issued' # issued /\ \E c \in Clients : Issue(c)
    \/ consumers' # consumers /\ \E c \in Clients : Reconfigure(c) \/ Detach(c) \/ Remove(c)

Spec == Init /\ [][Next]_vars

=============================================================================

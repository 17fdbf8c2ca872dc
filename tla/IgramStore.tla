---------------------------- MODULE IgramStore ----------------------------
(***************************************************************************)
(* The chunked store of an interferogram stack: arrays with one slice for   *)
(* each pair, and attributes that name the pairs.  A pair is appended array *)
(* by array and is named last; a call may fail at any array, and its writer *)
(* then goes on, or dies and opens the store again.  Readers come at any    *)
(* time.                                                                    *)
(*                                                                         *)
(* Source: io/zarr_store.py.  A slice holds the number of the call that     *)
(* wrote it, 0 is the fill value.  One writer at a time: nothing in the     *)
(* code keeps two apart.                                                    *)
(***************************************************************************)
EXTENDS Integers, Sequences

CONSTANTS
    Keys,         \* keys of pairs
    Stacks,       \* bound: arguments of create, [n : Nat, unw, conncomp : BOOLEAN]
    Extras,       \* bound: what a call may bring beside wrapped and coherence
    MaxAppends,   \* bound: calls of append_pair
    MaxCreates    \* bound: calls of create

ASSUME StoreAssumption ==
    /\ \A s \in Stacks : s.n \in Nat /\ s.unw \in BOOLEAN /\ s.conncomp \in BOOLEAN
    /\ Extras \subseteq SUBSET {"mask", "unw", "conncomp"}
    /\ MaxAppends \in Nat /\ MaxCreates \in Nat

ARRAY_NAMES == << "wrapped", "coherence", "mask", "unw", "conncomp" >>

Arrays == { ARRAY_NAMES[i] : i \in DOMAIN ARRAY_NAMES }

Always == {"wrapped", "coherence"}

VARIABLES
    slices,    \* the group: [array -> slices], << >> without the array
    present,   \* the arrays of the group
    attrs,     \* the attribute pairs
    handle,    \* the writer's _pairs, and (history) the calls that brought them
    call,      \* its append_pair: the call, its key, what it brings, what is left
    appends,   \* history: the call's arguments, by number
    origin,    \* history: the call that named each pair of attrs
    creates,   \* calls of create
    view       \* the reader's _pairs, and whether create came since

storevars == <<slices, present, attrs, handle, call, appends, origin, creates, view>>

NoCall == [n |-> 0, key |-> "none", brings |-> {}, grow |-> {}, left |-> {}]
NoHandle == [open |-> FALSE, pairs |-> << >>, calls |-> << >>, capacity |-> 0]
NoView == [open |-> FALSE, pairs |-> << >>]

\* The array of S that the code comes to first.
FirstOf(S) ==
    ARRAY_NAMES[CHOOSE i \in DOMAIN ARRAY_NAMES :
                   ARRAY_NAMES[i] \in S /\ \A j \in 1 .. i - 1 : ARRAY_NAMES[j] \notin S]

KnownKeys(pairs) == { pairs[i] : i \in DOMAIN pairs }

StoreInit ==
    /\ slices = [a \in Arrays |-> << >>] /\ present = {} /\ attrs = << >>
    /\ handle = NoHandle /\ call = NoCall
    /\ appends = << >> /\ origin = << >> /\ creates = 0
    /\ view = NoView

\* mode "w" empties a store that exists (overwrite).
Create(s) ==
    /\ creates < MaxCreates /\ creates' = creates + 1
    /\ ~handle.open
    /\ present' = {"wrapped", "coherence", "mask"}
                     \union (IF s.unw THEN {"unw"} ELSE {})
                     \union (IF s.conncomp THEN {"conncomp"} ELSE {})
    /\ slices' = [a \in Arrays |-> IF a \in present' THEN [i \in 1 .. s.n |-> 0] ELSE << >>]
    /\ attrs' = << >> /\ origin' = << >>
    /\ handle' = [open |-> TRUE, pairs |-> << >>, calls |-> << >>, capacity |-> s.n]
    /\ view' = NoView
    /\ UNCHANGED <<call, appends>>

\* open, mode "r+".
OpenWriter ==
    /\ creates > 0 /\ ~handle.open
    /\ handle' = [open |-> TRUE, pairs |-> attrs, calls |-> origin,
                  capacity |-> Len(slices["wrapped"])]
    /\ UNCHANGED <<slices, present, attrs, call, appends, origin, creates, view>>

\* FAULT: the key is remembered before its slices are written.
RememberFirst(key, brings) ==
    /\ handle.open /\ call = NoCall /\ Len(appends) < MaxAppends
    /\ key \notin KnownKeys(handle.pairs)
    /\ appends' = Append(appends, [key |-> key, brings |-> brings])
    /\ call' = [n |-> Len(appends) + 1, key |-> key, brings |-> brings, grow |-> {},
                left |-> brings \union Always]
    /\ handle' = [handle EXCEPT !.pairs = Append(@, key), !.calls = Append(@, Len(appends) + 1)]
    /\ UNCHANGED <<slices, present, attrs, origin, creates, view>>

\* append_pair, which refuses a key it knows; the store grows when it is full.
AppendPair(key, brings) ==
    /\ handle.open /\ call = NoCall /\ Len(appends) < MaxAppends
    /\ key \notin KnownKeys(handle.pairs)
    /\ appends' = Append(appends, [key |-> key, brings |-> brings])
    /\ call' = [n |-> Len(appends) + 1, key |-> key, brings |-> brings,
                grow |-> IF Len(handle.pairs) >= handle.capacity THEN present ELSE {},
                left |-> brings \union Always]
    /\ UNCHANGED <<slices, present, attrs, handle, origin, creates, view>>

\* _grow, one array.
GrowArray ==
    /\ call.grow # {}
    /\ LET size == Len(handle.pairs) + 1
           a == FirstOf(call.grow)
       IN  /\ slices' = [slices EXCEPT ![a] =
                           [i \in 1 .. size |-> IF i <= Len(@) THEN @[i] ELSE 0]]
           /\ handle' = [handle EXCEPT !.capacity = IF call.grow = {a} THEN size ELSE @]
           /\ call' = [call EXCEPT !.grow = @ \ {a}]
    /\ UNCHANGED <<present, attrs, appends, origin, creates, view>>

\* The next array is written; unw and conncomp are created when first brought.
WriteSlice ==
    /\ call.grow = {} /\ call.left # {}
    /\ LET a == FirstOf(call.left)
           i == Len(handle.pairs) + 1
           full == IF a \in present THEN slices[a] ELSE [k \in 1 .. handle.capacity |-> 0]
       IN  /\ i <= Len(full)
           /\ slices' = [slices EXCEPT ![a] = [full EXCEPT ![i] = call.n]]
           /\ present' = present \union {a}
           /\ call' = [call EXCEPT !.left = @ \ {a}]
    /\ UNCHANGED <<attrs, handle, appends, origin, creates, view>>

\* The key is remembered, then named with all that are; writing the names may
\* fail, and then only the writer knows the pair.
NamePair ==
    /\ call # NoCall /\ call.grow = {} /\ call.left = {}
    /\ handle' = [handle EXCEPT !.pairs = Append(@, call.key), !.calls = Append(@, call.n)]
    /\ \/ attrs' = handle'.pairs /\ origin' = handle'.calls
       \/ UNCHANGED <<attrs, origin>>
    /\ call' = NoCall
    /\ UNCHANGED <<slices, present, appends, creates, view>>

\* An array of the wrong shape, one that did not grow, a full disk: the
\* exception leaves what is written.
AppendFails ==
    /\ call # NoCall /\ call.left # {}
    /\ call' = NoCall
    /\ UNCHANGED <<slices, present, attrs, handle, appends, origin, creates, view>>

WriterDies ==
    /\ handle.open
    /\ handle' = NoHandle /\ call' = NoCall
    /\ UNCHANGED <<slices, present, attrs, appends, origin, creates, view>>

\* open, mode "r".
OpenReader ==
    /\ creates > 0
    /\ view' = [open |-> TRUE, pairs |-> attrs]
    /\ UNCHANGED <<slices, present, attrs, handle, call, appends, origin, creates>>

StoreNext ==
    \/ \E s \in Stacks : Create(s)
    \/ OpenWriter
    \/ \E k \in Keys, brings \in Extras : AppendPair(k, brings)
    \/ GrowArray \/ WriteSlice \/ NamePair \/ AppendFails \/ WriterDies \/ OpenReader

StoreSpec == StoreInit /\ [][StoreNext]_storevars

-----------------------------------------------------------------------------
(* Properties.                                                              *)

\* What a reader finds under a key is what the call that named the key
\* brought, in every array, whatever calls failed or died before it or are
\* half done now; a key has one slice; and a reader's names stay true while
\* others are appended.
SlicesAreTheirOwn ==
    /\ \A i \in DOMAIN attrs :
          LET own == appends[origin[i]]
          IN  /\ own.key = attrs[i]
              /\ \A a \in own.brings \union Always : slices[a][i] = origin[i]
    /\ \A i, j \in DOMAIN attrs : i # j => attrs[i] # attrs[j]
    /\ view.open => view.pairs = SubSeq(attrs, 1, Len(view.pairs))
=============================================================================

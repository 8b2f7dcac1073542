------------------------------- MODULE DynArr -------------------------------
(* algo/dynamic_array.c: a list of buckets, each twice the size of the one   *)
(* before; elements keep their address for ever.                             *)
EXTENDS Integers, Sequences, SequencesExt

CONSTANTS FirstCap,     \* 8 in _dynarr_grow
          InitCaps,     \* capacities dynarr_init_of_size is called with
          Elems, MaxSize
ASSUME DynArrAssumption == FirstCap \in Nat \ {0} /\ InitCaps \subseteq Nat \ {0}

VARIABLES buckets,      \* sequence of [cap, size, data]; data[i] for i < cap
          vsize,        \* v->size
          abs           \* the sequence the array stands for

davars == <<buckets, vsize, abs>>

NewBucket(cap) == [cap |-> cap, size |-> 0, data |-> [i \in 0 .. cap - 1 |-> 0]]

\* _dynarr_bucket: which bucket holds an index, <<0, 0>> for NULL.
Where(bs, index) ==
    LET before[b \in 0 .. Len(bs)] == IF b = 0 THEN 0 ELSE before[b - 1] + bs[b].cap
        hit == {b \in DOMAIN bs : before[b - 1] <= index /\ index < before[b]}
    IN IF hit = {} THEN <<0, 0>>
       ELSE LET b == CHOOSE x \in hit : TRUE IN <<b, index - before[b - 1]>>

_dynarr_has_empty_space(bs) == bs # <<>> /\ Last(bs).size < Last(bs).cap
_dynarr_grow(bs) == Append(bs, NewBucket(IF bs = <<>> THEN FirstCap ELSE Last(bs).cap * 2))

dynarr_push(e) ==
    LET bs == IF _dynarr_has_empty_space(buckets) THEN buckets ELSE _dynarr_grow(buckets)
        w  == Where(bs, vsize)
    IN /\ vsize < MaxSize
       /\ buckets' = [bs EXCEPT ![w[1]].data[w[2]] = e, ![w[1]].size = @ + 1]
       /\ vsize' = vsize + 1
       /\ abs' = Append(abs, e)

dynarr_pop ==
    LET w == Where(buckets, vsize - 1) IN
    /\ vsize > 0
    /\ buckets' = [buckets EXCEPT ![w[1]].size = @ - 1]
    /\ vsize' = vsize - 1
    /\ abs' = Front(abs)

\* dynarr_free and dynarr_clear.
dynarr_clear == buckets' = <<>> /\ vsize' = 0 /\ abs' = <<>>

\* An element is changed in place through the pointer dynarr_get returned.
dynarr_get(i) == LET w == Where(buckets, i) IN buckets[w[1]].data[w[2]]
SetElem(i, e) ==
    LET w == Where(buckets, i) IN
    /\ i < vsize
    /\ buckets' = [buckets EXCEPT ![w[1]].data[w[2]] = e]
    /\ abs' = [abs EXCEPT ![i + 1] = e]
    /\ UNCHANGED vsize

DaInit == \E c \in InitCaps : buckets = <<NewBucket(c)>> /\ vsize = 0 /\ abs = <<>>
DaNext == \/ \E e \in Elems : dynarr_push(e) \/ \E i \in 0 .. MaxSize - 1 : SetElem(i, e)
          \/ dynarr_pop \/ dynarr_clear

\* Growing, popping across bucket borders and clearing keep the array the
\* sequence of what was pushed: dynarr_get(i) is the i-th element.
ArrayIsSequence ==
    /\ vsize = Len(abs)
    /\ \A i \in 0 .. vsize - 1 : dynarr_get(i) = abs[i + 1]

\* The target of a push always exists: ASSERT(target) in dynarr_push.
PushHasRoom ==
    Where(IF _dynarr_has_empty_space(buckets) THEN buckets ELSE _dynarr_grow(buckets),
          vsize)[1] # 0
=============================================================================

--------------------------- MODULE MCBlockMaxWand ---------------------------
EXTENDS BlockMaxWand

NormTable == <<1, 3>>

(* Kinds of document: its length and how often each term occurs in it. *)
Doc(c, x, kind) == [ctid |-> c, tenant |-> x, len |-> kind[1], tf |-> Tail(kind)]

Kinds == {<<1, 1, 0, 0>>, <<1, 0, 1, 0>>, <<1, 1, 1, 0>>, <<1, 0, 1, 2>>, <<3, 2, 0, 1>>}
FewKinds == {<<1, 1, 0, 0>>, <<1, 0, 2, 0>>, <<3, 1, 1, 1>>}
TwoKinds == {<<1, 1, 0, 0>>, <<1, 1, 1, 0>>}

Ask(idfs, boost) ==
    [q \in 1 .. Len(idfs) |-> [term |-> q, idf |-> idfs[q], query_freq |-> boost[q]]]

(* Three terms over one segment of five documents: three blocks for a term. *)
OneSegment ==
    {[mem |-> {}, docs |-> <<{Doc(c, 0, f[c]) : c \in 1 .. 5}>>, tenants |-> FALSE,
      terms |-> Ask(<<1, 2, 3>>, <<1, 1, 1>>), k |-> k, tenant |-> 0] :
         f \in [1 .. 5 -> Kinds], k \in {1, 3}}

(* A memtable document sets the threshold first; the frequencies, and with them the bounds
   of the blocks, differ within a list, and some documents do not match at all. *)
Thresholds ==
    {[mem |-> {Doc(9, 0, <<1, 0, 1, 0>>)}, docs |-> <<{Doc(c, 0, f[c]) : c \in 1 .. 5}>>, tenants |-> FALSE,
      terms |-> Ask(<<1, 1>>, <<1, 1>>), k |-> 1, tenant |-> 0] :
         f \in [1 .. 5 -> {<<1, 1, 0, 0>>, <<1, 1, 1, 0>>, <<1, 2, 0, 0>>, <<1, 0, 0, 1>>}]}

(* Two segments and a memtable document, one and two terms, with boosts. *)
TwoSegments ==
    {[mem |-> {Doc(9, 0, <<1, 0, 1, 0>>)},
      docs |-> <<{Doc(c, 0, f[c]) : c \in 1 .. 3}, {Doc(c, 0, f[c]) : c \in 4 .. 5}>>, tenants |-> FALSE,
      terms |-> Ask(idfs, <<2, 1>>), k |-> k, tenant |-> 0] :
         f \in [1 .. 5 -> FewKinds], k \in {1, 2}, idfs \in {<<1>>, <<2, 1>>}}

(* Tenants: a tenant-ordered segment, and one whose only tenant is the largest id, which
   has no range and is filtered document by document. *)
TenantSegments ==
    {[mem |-> {Doc(8, 1, <<1, 1, 0, 0>>), Doc(9, 2, <<1, 1, 1, 0>>)},
      docs |-> <<{Doc(c, g[c], f[c]) : c \in 1 .. 4}>>, tenants |-> TRUE,
      terms |-> Ask(idfs, <<1, 2>>), k |-> 2, tenant |-> x] :
         f \in [1 .. 4 -> TwoKinds],
         g \in [1 .. 4 -> {0, 1, 2}] \cup [1 .. 4 -> {0, UINT32_MAX}],
         idfs \in {<<1>>, <<2, 1>>}, x \in {1, UINT32_MAX}}

(* Next to another tenant, the largest id (a tenant column of -1) loses its range. *)
LastTenant ==
    {[mem |-> {}, docs |-> <<{Doc(c, g[c], f[c]) : c \in 1 .. 3}>>, tenants |-> TRUE,
      terms |-> Ask(<<1>>, <<1>>), k |-> 2, tenant |-> x] :
         f \in [1 .. 3 -> TwoKinds], g \in [1 .. 3 -> {0, 1, UINT32_MAX}], x \in {1, UINT32_MAX}}

(* One term, no tenants: short and long documents share the blocks of the list. *)
MixedLengths ==
    {[mem |-> {}, docs |-> <<{Doc(c, 0, f[c]) : c \in 1 .. 4}>>, tenants |-> FALSE,
      terms |-> Ask(<<1>>, <<1>>), k |-> k, tenant |-> 0] :
         f \in [1 .. 4 -> {<<1, 1, 0, 0>>, <<1, 2, 0, 0>>, <<3, 1, 0, 0>>}], k \in {1, 2}}

MCQueries == LastTenant \cup OneSegment \cup Thresholds \cup TwoSegments \cup TenantSegments
=============================================================================

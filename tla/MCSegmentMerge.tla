--------------------------- MODULE MCSegmentMerge ---------------------------
EXTENDS SegmentMerge

NormTable == <<1, 3>>

(* Kinds of document: its length and how often each term occurs in it. *)
Doc(c, x, kind) == [ctid |-> c, tenant |-> x, len |-> kind[1], tf |-> Tail(kind)]
Kinds == {<<1, 1, 0>>, <<4, 2, 1>>, <<2, 0, 2>>}

(* A spilled segment stores the tenant counts of everything indexed so far. *)
Spill(docs, v4, before) ==
    tp_write_segment(docs, v4,
        IF v4 THEN [x \in {d.tenant : d \in docs \cup before} \ {0} |->
                      Cardinality({d \in docs \cup before : d.tenant = x})]
        ELSE << >>)

(* Six documents without tenants, in two segments of a level and an older one above it:
   both merges run over lists of more than one block. *)
Plain ==
    {[chain |-> <<Spill({Doc(c, 0, f[(c % 3) + 1]) : c \in {2, 4, 6}}, FALSE, {}),
                  Spill({Doc(c, 0, f[(c % 3) + 1]) : c \in {1, 3}}, FALSE, {})>>,
      upper |-> IF again THEN <<Spill({Doc(c, 0, <<1, 1, 1>>) : c \in {5}}, FALSE, {})>> ELSE << >>] :
         f \in [1 .. 3 -> Kinds], again \in BOOLEAN}

(* Tenants, and a segment written before the index had any. *)
Tenants ==
    {[chain |-> <<Spill({Doc(2, g[1], <<1, 1, 1>>), Doc(3, g[2], <<2, 1, 0>>), Doc(5, g[3], <<4, 2, 1>>)},
                        TRUE, {}),
                  Spill({Doc(1, IF v4 THEN g[4] ELSE 0, <<1, 1, 0>>), Doc(4, IF v4 THEN g[3] ELSE 0, <<1, 2, 1>>)},
                        v4, {})>>,
      upper |-> << >>] : g \in [1 .. 4 -> 0 .. 2], v4 \in BOOLEAN}

(* A heap slot that was vacuumed and reused: CTID 2 is in both segments, for two rows.  With
   kinds <<4, 0, 2>> and <<1, 1, 0>> the rows have no term in common and different norms. *)
Reused ==
    {[chain |-> <<Spill({Doc(2, x, k), Doc(3, 1, <<1, 1, 0>>)}, TRUE, {}),
                  Spill({Doc(1, 2, <<1, 1, 1>>), Doc(2, y, l)}, TRUE, {})>>,
      upper |-> <<Spill({Doc(5, 1, <<1, 1, 0>>)}, TRUE, {})>>] :
         x \in 1 .. 2, y \in 1 .. 2, k \in Kinds \cup {<<4, 0, 2>>}, l \in Kinds}

MCInputs == Plain \cup Tenants \cup Reused
=============================================================================

----------------------------- MODULE PortPolicy -----------------------------
(***************************************************************************)
(* The port allowlist: what a spec parses to and which ports it permits.   *)
(* A spec is "all" or a list of comma-separated pieces, and a piece is the *)
(* sequence of its integers: none when blank, one for a port, two for a    *)
(* range.  Text that is not an integer is an integer out of range: either  *)
(* way the piece does not parse.                                           *)
(***************************************************************************)
EXTENDS Integers, Sequences

Pieces == {p \in Seq(Int) : Len(p) <= 2}

PortSpecs == [all : BOOLEAN, pieces : Seq(Pieces)]

MaxPort == 65535

inRange(n) == 1 <= n /\ n <= MaxPort

\* parsePort on each integer of the piece, and lo <= hi.
parses(piece) ==
  /\ \A i \in 1 .. Len(piece) : inRange(piece[i])
  /\ Len(piece) = 2 => piece[1] <= piece[2]

\* Mutant: a piece that does not parse is skipped.
MutMalformed(spec) == FALSE

\* One piece that does not parse spoils the spec.
Malformed(spec) ==
  ~spec.all /\ \E i \in 1 .. Len(spec.pieces) : ~parses(spec.pieces[i])

\* The policy of a spec that is not Malformed.
Parse(spec) ==
  LET of(n) == {i \in 1 .. Len(spec.pieces) : Len(spec.pieces[i]) = n} IN
  [all |-> spec.all,
   single |-> {spec.pieces[i][1] : i \in of(1)},
   ranges |-> {spec.pieces[i] : i \in of(2)}]

Permits(p, n) ==
  p.all \/ n \in p.single \/ \E r \in p.ranges : r[1] <= n /\ n <= r[2]

\* What the operator means by a spec: every port some piece of it spells out.
Covers(spec, n) ==
  /\ n \in 1 .. MaxPort
  /\ spec.all \/ \E i \in 1 .. Len(spec.pieces) :
                   LET p == spec.pieces[i] IN
                   p # <<>> /\ n \in p[1] .. p[Len(p)]

\* ... and they mean something by it when it names ports only, in order.
Meaningful(spec) ==
  spec.all \/ \A i \in 1 .. Len(spec.pieces) :
                LET p == spec.pieces[i] IN
                p = <<>> \/ (p[1] <= p[Len(p)] /\ {p[1], p[Len(p)]} \subseteq 1 .. MaxPort)
=============================================================================

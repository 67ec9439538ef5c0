------------------------------- MODULE Matrix -------------------------------
(***************************************************************************)
(* Matrices over GF(2^m) (erasure/matrix.c) and the field below them.  An  *)
(* element is a number, a matrix a function of row and column numbers from *)
(* zero.  The two inversions, over public and over secret data, differ in  *)
(* how they look for a pivot.                                              *)
(***************************************************************************)
EXTENDS Integers, Sequences, FiniteSetsExt, SequencesExt

CONSTANTS FieldBits,    \* m
          FieldPoly     \* the modulus, as a number: 285 for GF(2^8), 11 for GF(2^3)

Order == 2 ^ FieldBits
Field == 0..(Order - 1)
BitOf(x, i) == (x \div 2 ^ i) % 2

Xor(x, y) == MapThenSumSet(LAMBDA i : ((BitOf(x, i) + BitOf(y, i)) % 2) * 2 ^ i, 0..FieldBits)
AddTable == [x, y \in Field |-> Xor(x, y)]
Doubled(x) == IF 2 * x < Order THEN 2 * x ELSE Xor(2 * x, FieldPoly)

\* a is doubled while the bits of b are read from the lowest.
MulTable ==
  [x, y \in Field |->
     FoldLeft(LAMBDA s, i : [a |-> Doubled(s.a),
                             p |-> IF BitOf(y, i - 1) = 1 THEN AddTable[s.p, s.a] ELSE s.p],
              [a |-> x, p |-> 0], [i \in 1..FieldBits |-> i]).p]

Add(x, y) == AddTable[x, y]
Mul(x, y) == MulTable[x, y]

\* field_pow
Pow(x, e) == FoldLeftDomain(LAMBDA p, i : Mul(p, x), 1, [i \in 1..e |-> i])

\* The inverse as a power, so that the inverse of zero is zero.
InvTable == [x \in Field |-> Pow(x, Order - 2)]
Inv(x) == InvTable[x]

Dot(f, g, S) == FoldSet(LAMBDA j, sum : Add(sum, Mul(f[j], g[j])), 0, S)

-----------------------------------------------------------------------------
Rows(m) == DOMAIN m
Cols(m) == DOMAIN m[0]
Upto(n) == 0..(n - 1)
Columns(a) == [n \in 1..Cardinality(DOMAIN a) |-> n - 1]   \* in order

\* The matrix of the entries e(i, j); merging with the empty function makes
\* TLC work the entries out, once.
Vec(I, e(_)) == [i \in I |-> e(i)] @@ <<>>
Matrix(I, J, e(_, _)) == Vec(I, LAMBDA i : Vec(J, LAMBDA j : e(i, j)))
Identity(k) == Matrix(Upto(k), Upto(k), LAMBDA i, j : IF i = j THEN 1 ELSE 0)

Vandermonde(n, k) == Matrix(Upto(n), Upto(k), LAMBDA i, j : Pow(i + 1, j))

\* The identity, then 1 / (x + y) with x the row and y the column.
Cauchy(n, k) ==
  Matrix(Upto(n), Upto(k), LAMBDA i, j :
    IF i < k THEN (IF i = j THEN 1 ELSE 0) ELSE Inv(Add(i, j)))

\* voleith_ec_matrix_generator: the points must be elements of the field.
GeneratorExists(gen, n, k) ==
  k # 0 /\ k <= n /\ (IF gen = "vandermonde" THEN n < Order ELSE n <= Order)
Generator(gen, n, k) == IF gen = "vandermonde" THEN Vandermonde(n, k) ELSE Cauchy(n, k)

SelectRows(m, idx) == Matrix(Upto(Len(idx)), Cols(m), LAMBDA i, j : m[idx[i + 1]][j])
MatMul(a, b) ==
  Matrix(Rows(a), Cols(b), LAMBDA i, j : Dot(a[i], [t \in Rows(b) |-> b[t][j]], Cols(a)))
Apply(m, v) == [i \in Rows(m) |-> Dot(m[i], v, Cols(m))]

RowScale(m, row, s) ==
  Matrix(Rows(m), Cols(m), LAMBDA i, j : IF i = row THEN Mul(s, m[i][j]) ELSE m[i][j])
RowAxpy(m, dst, src, factor) ==
  Matrix(Rows(m), Cols(m), LAMBDA i, j :
    IF i = dst THEN Add(m[i][j], Mul(factor, m[src][j])) ELSE m[i][j])
RowSwap(m, a, b) == [m EXCEPT ![a] = m[b], ![b] = m[a]]

-----------------------------------------------------------------------------
\* A step for every element of a sequence; the sets make TLC work each step
\* out only once.
Each(Op(_, _), start, seq) ==
  FoldLeft(LAMBDA s, x : CHOOSE t \in {Op(u, x) : u \in {s}} : TRUE, start, seq)
OverColumns(Op(_, _), start, a) == Each(Op, start, Columns(a))

\* The pivot row is scaled to one and its column cleared from the others; a
\* factor of zero changes nothing, whether its axpy runs or not.
Eliminate(s, col) ==
  LET pinv == Inv(s.work[col][col])
      scaled == [s EXCEPT !.work = RowScale(@, col, pinv), !.inv = RowScale(@, col, pinv)]
      Clear(t, row) ==
        LET factor == t.work[row][col]
        IN  IF row = col \/ factor = 0 THEN t
            ELSE [t EXCEPT !.work = RowAxpy(@, row, col, factor),
                           !.inv = RowAxpy(@, row, col, factor)]
  IN  OverColumns(Clear, scaled, s.work)

Swapped(s, a, b) ==
  [s EXCEPT !.work = RowSwap(@, a, b), !.inv = RowSwap(@, a, b)]

StartInvert(a) == [work |-> a, inv |-> Identity(Cardinality(Rows(a))), singular |-> FALSE]

\* voleith_ec_matrix_invert: the first row at or below with a nonzero entry;
\* without one it returns at once.
Invert(a) ==
  LET Pivot(s, col) ==
        LET rows == {i \in Rows(a) : i >= col /\ s.work[i][col] # 0}
        IN  IF s.singular THEN s
            ELSE IF rows = {} THEN [s EXCEPT !.singular = TRUE]
            ELSE Eliminate(Swapped(s, col, Min(rows)), col)
  IN  OverColumns(Pivot, StartInvert(a), a)

\* voleith_ec_matrix_invert_ct: every row at or below is looked at, the first
\* nonzero one is swapped in, and a column without one is remembered.
InvertCt(a) ==
  LET Search(s, i, col) ==
        LET cand == s.work[i][col] # 0
        IN  [found |-> s.found \/ cand,
             work |-> IF cand /\ ~ s.found THEN RowSwap(s.work, col, i) ELSE s.work,
             inv |-> IF cand /\ ~ s.found THEN RowSwap(s.inv, col, i) ELSE s.inv]
      Pivot(s, col) ==
        LET rest == [n \in 1..(Cardinality(Rows(a)) - col) |-> col + n - 1]
            at == Each(LAMBDA p, i : Search(p, i, col),
                       [found |-> FALSE, work |-> s.work, inv |-> s.inv], rest)
        IN  Eliminate([s EXCEPT !.work = at.work, !.inv = at.inv,
                                !.singular = @ \/ ~ at.found], col)
  IN  OverColumns(Pivot, StartInvert(a), a)
=============================================================================

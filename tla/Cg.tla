--------------------------------- MODULE Cg ---------------------------------
(*****************************************************************************)
(* The NAS benchmark CG: its random numbers, its matrix, the product on threads *)
(* and the solver.  Doubles are integers, or elements of a finite field.     *)
(*****************************************************************************)
EXTENDS Integers, Sequences, FiniteSets, FiniteSetsExt, SequencesExt

(* The random numbers of the CG benchmark (2_openmp/hw2/common/randdp.c):    *)
(* products of two numbers of 2 * BITS bits, modulo 2 ^ (2 * BITS), from     *)
(* halves of BITS bits.  The code has BITS = 23, for which every value below *)
(* is an integer a double holds exactly.                                     *)
CONSTANTS BITS,
          Mults        \* multipliers a
VARIABLES x0, randX, randA, drawn
randVars == <<x0, randX, randA, drawn>>

t23 == 2 ^ BITS
t46 == t23 * t23
RandInit == x0 \in {n \in 1..(t46 - 1) : n % 2 = 1} /\ randX = x0 /\ randA \in Mults /\ drawn = 0

\* (int) truncates; the values are never negative.
randlc(seed, mult) ==
    LET a1 == mult \div t23
        a2 == mult - t23 * a1
        x1 == seed \div t23
        x2 == seed - t23 * x1
        t1 == a1 * x2 + a2 * x1
        z  == t1 - t23 * (t1 \div t23)
        t3 == t23 * z + a2 * x2
    IN t3 - t46 * (t3 \div t46)
Draw == drawn < t46 /\ randX' = randlc(randX, randA) /\ drawn' = drawn + 1 /\ UNCHANGED <<x0, randA>>
RandNext == Draw

-----------------------------------------------------------------------------
\* "This scheme generates 2^44 numbers before repeating": the seed comes back
\* after t46 / 4 numbers and not before, and stays odd and below t46 (randlc).
FullPeriod ==
    /\ randX \in 1..(t46 - 1) /\ randX % 2 = 1
    /\ (randX = x0) <=> (drawn % (t46 \div 4) = 0)

-----------------------------------------------------------------------------
(* The test matrix of the CG benchmark (2_openmp/hw2/cg.c: makea, sprnvc,    *)
(* vecset, sparse), as one OpenMP thread runs it.  Values are integers, in   *)
(* halves: the 0.5 of makea () is 1.  Rows and columns count from 0 as in    *)
(* the code; a matrix element k is colidx[k], a[k].                          *)
CONSTANTS NA, NONZER,
          Elts,        \* what randlc () gives for an element
          SIZE,        \* SIZE[i]: size at row i, ratio ^ i in the code
          RCSHIFT      \* rcond - shift
VARIABLES matPc, iouter, iv, vc, acol, aelt, rowstr, colidx, matA, nzloc, matI
matVars == <<matPc, iouter, iv, vc, acol, aelt, rowstr, colidx, matA, nzloc, matI>>

NZ == NA * (NONZER + 1) * (NONZER + 1)
\* The smallest power of two not less than n (and 2 at least).
nn1 == CHOOSE p \in {2 ^ k : k \in 1..NA} : p >= NA /\ (p = 2 \/ p \div 2 < NA)
arow(r) == Len(acol[r])
MatRows == 0..(NA - 1)

MatInit ==
    /\ matPc = "sprnvc" /\ iouter = 0 /\ iv = <<>> /\ vc = <<>> /\ acol = <<>> /\ aelt = <<>>
    /\ rowstr = <<>> /\ colidx = <<>> /\ matA = <<>> /\ nzloc = <<>> /\ matI = 0

(* --- makea: NONZER different places drawn for every row                    *)
\* One draw: a place past n and a place drawn before are thrown away.
sprnvc(vecelt, at) ==
    /\ matPc = "sprnvc" /\ iouter < NA /\ Len(iv) < NONZER
    /\ at <= NA /\ at \notin ToSet(iv)
    /\ iv' = Append(iv, at) /\ vc' = Append(vc, vecelt)
    /\ UNCHANGED <<matPc, iouter, acol, aelt, rowstr, colidx, matA, nzloc, matI>>
\* Element at is set to val, where it is or at the end.
vecset(at, val) ==
    IF at \in ToSet(iv)
    THEN [iv |-> iv, v |-> [k \in DOMAIN vc |-> IF iv[k] = at THEN val ELSE vc[k]]]
    ELSE [iv |-> Append(iv, at), v |-> Append(vc, val)]
makea ==
    /\ matPc = "sprnvc" /\ iouter < NA /\ Len(iv) = NONZER
    /\ LET row == vecset(iouter + 1, 1)
       IN /\ acol' = Append(acol, [k \in DOMAIN row.iv |-> row.iv[k] - 1])
          /\ aelt' = Append(aelt, row.v)
    /\ iouter' = iouter + 1 /\ iv' = <<>> /\ vc' = <<>>
    /\ UNCHANGED <<matPc, rowstr, colidx, matA, nzloc, matI>>

(* --- sparse                                                                *)
\* Room for row j: the triples of every row that has column j.
Count ==
    /\ matPc = "sprnvc" /\ iouter = NA
    /\ LET room(j) == MapThenSumSet(LAMBDA r : Cardinality({k \in 1..arow(r) : acol[r][k] = j}) * arow(r), 1..NA)
           str == [j \in 0..NA |-> MapThenSumSet(room, 0..(j - 1))]
       IN /\ rowstr' = str
          /\ IF str[NA] - 1 > NZ THEN matPc' = "space exceeded" /\ UNCHANGED <<colidx, matA>>
             ELSE /\ matPc' = "fill"
                  /\ colidx' = [k \in 0..(str[NA] - 1) |-> -1]
                  /\ matA' = [k \in 0..(str[NA] - 1) |-> 0]
    /\ nzloc' = [j \in MatRows |-> 0] /\ UNCHANGED <<iouter, iv, vc, acol, aelt, matI>>

\* va is added at (j, jcol): at a column kept in order, at a new one put in
\* before the first larger, or at the first free place of the row.
Add(m, j, jcol, va) ==
    LET row == rowstr[j]..(rowstr[j + 1] - 1)
        stop == {k \in row : m.colidx[k] > jcol \/ m.colidx[k] = -1 \/ m.colidx[k] = jcol}
        k == Min(stop)
        moved(kk) == kk > k /\ m.colidx[kk - 1] > -1
    IN IF stop = {} THEN [m EXCEPT !.bad = TRUE]
       ELSE IF m.colidx[k] = jcol
       THEN [m EXCEPT !.a[k] = @ + va, !.nzloc[j] = @ + 1]
       ELSE IF m.colidx[k] = -1
       THEN [m EXCEPT !.a[k] = @ + va, !.colidx[k] = jcol]
       ELSE [m EXCEPT !.a = [kk \in DOMAIN @ |-> IF kk = k THEN va
                                ELSE IF kk \in row /\ moved(kk) THEN @[kk - 1] ELSE @[kk]],
                      !.colidx = [kk \in DOMAIN @ |-> IF kk = k THEN jcol
                                     ELSE IF kk \in row /\ moved(kk) THEN @[kk - 1] ELSE @[kk]]]
Value(r, nza, nzrow) ==
    aelt[r + 1][nzrow] * SIZE[r] * aelt[r + 1][nza]
      + (IF acol[r + 1][nzrow] = acol[r + 1][nza] /\ acol[r + 1][nza] = r THEN RCSHIFT ELSE 0)
\* Row i of the vectors: every pair of its elements.
Fill ==
    /\ matPc = "fill" /\ matI < NA
    /\ LET n == arow(matI + 1)
           pair(p) == <<((p - 1) \div n) + 1, ((p - 1) % n) + 1>>
           m == FoldLeftDomain(
                    LAMBDA m0, p : IF m0.bad THEN m0
                        ELSE Add(m0, acol[matI + 1][pair(p)[1]], acol[matI + 1][pair(p)[2]],
                                 Value(matI, pair(p)[1], pair(p)[2])),
                    [a |-> matA, colidx |-> colidx, nzloc |-> nzloc, bad |-> FALSE], [p \in 1..(n * n) |-> p])
       IN /\ matA' = m.a /\ colidx' = m.colidx /\ nzloc' = m.nzloc
          /\ matPc' = IF m.bad THEN "internal error" ELSE matPc
    /\ matI' = matI + 1 /\ UNCHANGED <<iouter, iv, vc, acol, aelt, rowstr>>

\* Mutant of Squeeze: a row is moved by its own loss only.
Squeeze_Own ==
    /\ matPc = "fill" /\ matI = NA
    /\ LET lost == [j \in -1..(NA - 1) |-> MapThenSumSet(LAMBDA l : nzloc[l], 0..j)]
           from(k) == LET j == CHOOSE j \in MatRows : rowstr[j] - lost[j - 1] <= k /\ k < rowstr[j + 1] - lost[j]
                      IN k + lost[j]
           kept == 0..(rowstr[NA] - lost[NA - 1] - 1)
       IN /\ matA' = [k \in DOMAIN matA |-> IF k \in kept THEN matA[from(k)] ELSE matA[k]]
          /\ colidx' = [k \in DOMAIN colidx |-> IF k \in kept THEN colidx[from(k)] ELSE colidx[k]]
          /\ nzloc' = [j \in MatRows |-> lost[j]]
          /\ rowstr' = [j \in 0..NA |-> IF j = 0 THEN 0 ELSE rowstr[j] - lost[j - 1]]
    /\ matPc' = "done" /\ UNCHANGED <<iouter, iv, vc, acol, aelt, matI>>

\* The free places go: each row is moved down by what the rows before lost, so
\* a place is read before it is written.
Squeeze ==
    /\ matPc = "fill" /\ matI = NA
    /\ LET lost == [j \in -1..(NA - 1) |-> MapThenSumSet(LAMBDA l : nzloc[l], 0..j)]
           from(k) == LET j == CHOOSE j \in MatRows : rowstr[j] - lost[j - 1] <= k /\ k < rowstr[j + 1] - lost[j]
                      IN k + lost[j - 1]
           kept == 0..(rowstr[NA] - lost[NA - 1] - 1)
       IN /\ matA' = [k \in DOMAIN matA |-> IF k \in kept THEN matA[from(k)] ELSE matA[k]]
          /\ colidx' = [k \in DOMAIN colidx |-> IF k \in kept THEN colidx[from(k)] ELSE colidx[k]]
          /\ nzloc' = [j \in MatRows |-> lost[j]]
          /\ rowstr' = [j \in 0..NA |-> IF j = 0 THEN 0 ELSE rowstr[j] - lost[j - 1]]
    /\ matPc' = "done" /\ UNCHANGED <<iouter, iv, vc, acol, aelt, matI>>

MatNext == (\E e \in Elts, at \in 1..nn1 : sprnvc(e, at)) \/ makea \/ Count \/ Fill \/ Squeeze

-----------------------------------------------------------------------------
\* Element (j, c) of the sum of the outer products of the vectors, with rcond
\* less shift on the diagonal.
Pairs(r, j, c) == {p \in (1..arow(r + 1)) \X (1..arow(r + 1)) : acol[r + 1][p[1]] = j /\ acol[r + 1][p[2]] = c}
Sum(j, c) == MapThenSumSet(LAMBDA r : MapThenSumSet(LAMBDA p : Value(r, p[1], p[2]), Pairs(r, j, c)), MatRows)

\* The compressed rows hold that sum: in each row the columns of some triple,
\* every one once and in order, with the duplicates added up (sparse).
MatrixRight ==
    matPc = "done" => \A j \in MatRows :
           LET row == rowstr[j]..(rowstr[j + 1] - 1)
               cols == {c \in MatRows : \E r \in MatRows : Pairs(r, j, c) # {}}
           IN /\ {colidx[k] : k \in row} = cols
              /\ \A k, l \in row : k < l => colidx[k] < colidx[l]
              /\ \A k \in row : matA[k] = Sum(j, colidx[k])
\* The room counted in advance is enough and NZ is enough for it: neither
\* error of sparse () is ever met, while it fills and however rows overlap.
RoomEnough == matPc \notin {"space exceeded", "internal error"}

-----------------------------------------------------------------------------
(* The product q = A.p of conj_grad () (2_openmp/hw2/cg.c) as the threads of *)
(* "omp parallel for" run it.  The loop variable j is private to a thread;   *)
(* sum and k are declared outside the loop and named in no clause, so the    *)
(* threads share them, and every read and write of them is a step.  The loop *)
(* that forms A.z for the residual has the same shape, with d for sum.       *)
CONSTANTS Threads,
          Chunk,            \* Chunk[t]: the rows of thread t, <<first, last>>
          Rowstr, Colidx, ProdA, P
VARIABLES sum, prodK, prodQ, prodJ, prodPc, reg
prodVars == <<sum, prodK, prodQ, prodJ, prodPc, reg>>

ProdRows == UNION {Chunk[t][1]..Chunk[t][2] : t \in Threads}
\* sum, d and k hold whatever they held before the loop.
ProdInit ==
    /\ sum = 0 /\ prodK = 0 /\ prodQ = [r \in ProdRows |-> 0]
    /\ prodJ = [t \in Threads |-> Chunk[t][1]] /\ prodPc = [t \in Threads |-> "zero"]
    /\ reg = [t \in Threads |-> 0]

Go(t, at) == prodPc' = [prodPc EXCEPT ![t] = at]
Load(t, v) == reg' = [reg EXCEPT ![t] = v]

Zero(t) == prodPc[t] = "zero" /\ sum' = 0 /\ Go(t, "first") /\ UNCHANGED <<prodK, prodQ, prodJ, reg>>
First(t) == prodPc[t] = "first" /\ prodK' = Rowstr[prodJ[t]] /\ Go(t, "test") /\ UNCHANGED <<sum, prodQ, prodJ, reg>>
Test(t) ==
    /\ prodPc[t] = "test" /\ Go(t, IF prodK < Rowstr[prodJ[t] + 1] THEN "add" ELSE "store")
    /\ UNCHANGED <<sum, prodK, prodQ, prodJ, reg>>
\* sum + a[k]*p[colidx[k]]; another thread may have moved k past the test, and a
\* read past the end of the matrix is not followed further.
AddUp(t) ==
    /\ prodPc[t] = "add" /\ prodK \in DOMAIN ProdA
    /\ Load(t, sum + ProdA[prodK] * P[Colidx[prodK]]) /\ Go(t, "put") /\ UNCHANGED <<sum, prodK, prodQ, prodJ>>
PutBack(t) == prodPc[t] = "put" /\ sum' = reg[t] /\ Go(t, "read k") /\ UNCHANGED <<prodK, prodQ, prodJ, reg>>
ReadK(t) == prodPc[t] = "read k" /\ Load(t, prodK) /\ Go(t, "write k") /\ UNCHANGED <<sum, prodK, prodQ, prodJ>>
WriteK(t) == prodPc[t] = "write k" /\ prodK' = reg[t] + 1 /\ Go(t, "test") /\ UNCHANGED <<sum, prodQ, prodJ, reg>>
\* q[j][0] = sum, and the next row of the chunk.
Store(t) ==
    /\ prodPc[t] = "store" /\ prodQ' = [prodQ EXCEPT ![prodJ[t]] = sum] /\ prodJ' = [prodJ EXCEPT ![t] = @ + 1]
    /\ Go(t, IF prodJ[t] = Chunk[t][2] THEN "barrier" ELSE "zero") /\ UNCHANGED <<sum, prodK, reg>>

ProdNext ==
    \/ \E t \in Threads : Zero(t) \/ First(t) \/ Test(t) \/ AddUp(t) \/ PutBack(t)
                            \/ ReadK(t) \/ WriteK(t) \/ Store(t)
    \/ (\A t \in Threads : prodPc[t] = "barrier") /\ UNCHANGED prodVars
ProdSpec == ProdInit /\ [][ProdNext]_prodVars

-----------------------------------------------------------------------------
\* "q = A.p" (cg.c:343): after the loop every row holds its product, whatever
\* the number of threads.
ProductRight ==
    (\A t \in Threads : prodPc[t] = "barrier") =>
        \A r \in ProdRows : prodQ[r] = MapThenSumSet(LAMBDA e : ProdA[e] * P[Colidx[e]], Rowstr[r]..(Rowstr[r + 1] - 1))

-----------------------------------------------------------------------------
(* The conjugate gradient solver of 2_openmp/hw2/cg.c (conj_grad) and the    *)
(* inverse power iteration of main around it, run by one thread: what two    *)
(* threads do to the product q = A.p is ProdSpec.   A double is an element   *)
(* of the field of PRIME elements: the algebra the algorithm rests on holds  *)
(* there exactly, and what rounding adds is left out.  A division by zero    *)
(* gives NaN, which is absorbing: the run ends.                              *)
CONSTANTS DIM,        \* rows of the matrix
          PRIME,     \* bound: the numbers
          NITER      \* bound: iterations of the power method
VARIABLES SolveA, solvePc, it, cgit, solveX, solveZ, solveR, solveP, solveQ, rho, d, rnorm, zeta, dirs
solveVars == <<SolveA, solvePc, it, cgit, solveX, solveZ, solveR, solveP, solveQ, rho, d, rnorm, zeta, dirs>>

F == 0..(PRIME - 1)
SolveRows == 1..DIM
Vec == [SolveRows -> F]
Inv(a) == CHOOSE b \in F : (a * b) % PRIME = 1
Neg(a) == (PRIME - a) % PRIME
Dot(u, v) == LET s[j \in 0..DIM] == IF j = 0 THEN 0 ELSE (s[j - 1] + (u[j] * v[j])) % PRIME IN s[DIM]
Plus(u, c, v) == [j \in SolveRows |-> (u[j] + (c * v[j])) % PRIME]     \* u + c * v
Times(v) == [j \in SolveRows |-> Dot(SolveA[j], v)]                         \* A.v, row by row
Zeros == [j \in SolveRows |-> 0]

\* makea () builds a symmetric matrix; x starts as (1, 1, ... 1).
SolveInit == /\ SolveA \in {a \in [SolveRows -> Vec] : \A i, j \in SolveRows : a[i][j] = a[j][i]}
             /\ solvePc = "init" /\ it = 1 /\ cgit = 1
             /\ solveX = [j \in SolveRows |-> 1] /\ solveZ = Zeros /\ solveR = Zeros /\ solveP = Zeros /\ solveQ = Zeros
             /\ rho = 0 /\ d = 0 /\ rnorm = 0 /\ zeta = 0 /\ dirs = {}

\* "Initialize the CG algorithm" and "rho = r.r"
Start == /\ solvePc = "init" /\ solvePc' = "q" /\ cgit' = 1
         /\ solveZ' = Zeros /\ solveQ' = Zeros /\ solveR' = solveX /\ solveP' = solveX /\ rho' = Dot(solveX, solveX)
         /\ dirs' = {}
         /\ UNCHANGED <<SolveA, it, solveX, d, rnorm, zeta>>

\* q = A.p, then d = p.q
Product == /\ solvePc = "q" /\ solvePc' = "alpha"
           /\ solveQ' = Times(solveP) /\ d' = Dot(solveP, Times(solveP))
           /\ UNCHANGED <<SolveA, it, cgit, solveX, solveZ, solveR, solveP, rho, rnorm, zeta, dirs>>

\* alpha = rho / d, z = z + alpha * p, r = r - alpha * q, rho = r.r,
\* beta = rho / rho0, p = r + beta * p
alpha == (rho * Inv(d)) % PRIME
beta(rho1) == (rho1 * Inv(rho)) % PRIME
Update ==
    LET r1 == Plus(solveR, Neg(alpha), solveQ)
    IN /\ solvePc = "alpha" /\ d # 0 /\ rho # 0
       /\ solveZ' = Plus(solveZ, alpha, solveP) /\ solveR' = r1 /\ rho' = Dot(r1, r1)
       /\ solveP' = Plus(r1, beta(Dot(r1, r1)), solveP)
       /\ dirs' = dirs \cup {solveP} /\ cgit' = cgit + 1
       \* bound: cgitmax is 25; DIM steps are what exact arithmetic needs
       /\ solvePc' = IF cgit = DIM THEN "norm" ELSE "q"
       /\ UNCHANGED <<SolveA, it, solveX, solveQ, d, rnorm, zeta>>
NaN == /\ solvePc = "alpha" /\ (d = 0 \/ rho = 0) /\ solvePc' = "nan"
       /\ UNCHANGED <<SolveA, it, cgit, solveX, solveZ, solveR, solveP, solveQ, rho, d, rnorm, zeta, dirs>>

\* r = A.z and the sum of (x - r)^2; the square root is left out.
Residual == /\ solvePc = "norm" /\ solvePc' = "zeta"
            /\ solveR' = Times(solveZ)
            /\ rnorm' = LET e == Plus(solveX, Neg(1), Times(solveZ)) IN Dot(e, e)
            /\ UNCHANGED <<SolveA, it, cgit, solveX, solveZ, solveP, solveQ, rho, d, zeta, dirs>>

\* norm_temp1 = x.z, zeta = SHIFT + 1 / norm_temp1, x = z / ||z||: any scaling.
\* The first call of conj_grad is untimed, and x is set to ones again after it.
Power ==
    /\ solvePc = "zeta" /\ it <= NITER /\ Dot(solveX, solveZ) # 0
    /\ zeta' = IF it = 1 THEN 0 ELSE Inv(Dot(solveX, solveZ))
    /\ \E c \in F \ {0} : solveX' = IF it = 1 THEN [j \in SolveRows |-> 1] ELSE Plus(Zeros, c, solveZ)
    /\ it' = it + 1 /\ solvePc' = IF it = NITER THEN "done" ELSE "init"
    /\ UNCHANGED <<SolveA, cgit, solveZ, solveR, solveP, solveQ, rho, d, rnorm, dirs>>

SolveNext == Start \/ Product \/ Update \/ NaN \/ Residual \/ Power

(* ------------------------------ properties ----------------------------- *)
\* The residual that the loop updates is the true one, r = x - A.z, at every
\* turn: the recurrence and the solution do not drift apart.
ResidualTrue == solvePc \in {"q", "alpha"} => solveR = Plus(solveX, Neg(1), Times(solveZ))

\* Each new direction is conjugate to all the earlier ones.
Conjugate == solvePc = "alpha" => \A u \in dirs : Dot(u, solveQ) = 0

\* After as many steps as the matrix has rows the system is solved: the norm
\* that conj_grad reports is zero, whatever the matrix.
Solves == solvePc = "zeta" => rnorm = 0 /\ Times(solveZ) = solveX
=============================================================================

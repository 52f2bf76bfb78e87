---------------------------- MODULE Discriminant ----------------------------
(***************************************************************************)
(* Linear discriminant analysis: "stegdetect -c" collects the feature      *)
(* vectors of images with and without hidden content, trains with most of  *)
(* them and tests with the others, trains again with all and prints a      *)
(* decision; "stegdetect -D -s" reads that decision, sets its boundary and *)
(* classifies images (discrimination.c, math.c, main() of stegdetect.c).   *)
(*                                                                         *)
(* A double is a rational number <<numerator, denominator>> here, so its   *)
(* rounding is left out, but not that of the decision when it is printed.  *)
(***************************************************************************)
EXTENDS Integers, Sequences, SequencesExt, FiniteSets, FiniteSetsExt

CONSTANTS
    Vectors,     \* feature vectors, sequences of small integers
    Transforms,  \* names of transforms
    MaxPositive, \* images of each kind that are read
    MaxNegative,
    Scales,      \* arguments of -s, rationals
    Decimals     \* a printed number is a multiple of 1 / Decimals

Rational == Int \X (Nat \ {0})

\* Each line of an image has points.
ASSUME TrainingAssumption ==
    /\ \A v \in Vectors : v \in Seq(Int) /\ v # <<>>
    /\ Decimals \in Nat \ {0} /\ Scales \subseteq Rational

VARIABLES
    training,  \* "reading", "training", "tested", "printed", "detecting", "failed": exit with an
               \* error, "undefined": 0.0 / 0 has become an index
    cdd,       \* the decision that is trained
    decision   \* the decision that was read from the output

discriminantVars == <<training, cdd, decision>>

-----------------------------------------------------------------------------
(* Rational numbers.                                                       *)

Gcd[p \in Nat \X Nat] == IF p[2] = 0 THEN p[1] ELSE Gcd[<<p[2], p[1] % p[2]>>]
AbsInt(n) == IF n < 0 THEN -n ELSE n

Q(n, d) ==
    LET g == Gcd[<<AbsInt(n), AbsInt(d)>>]
        s == IF d < 0 THEN -1 ELSE 1
    IN  <<(s * n) \div g, (s * d) \div g>>
Zero == <<0, 1>>
One == <<1, 1>>
Plus(x, y) == Q(x[1] * y[2] + y[1] * x[2], x[2] * y[2])
Minus(x, y) == Q(x[1] * y[2] - y[1] * x[2], x[2] * y[2])
Times(x, y) == LET Crossed(g, h) == Q(g[1] * h[1], g[2] * h[2])
               IN  Crossed(Q(x[1], y[2]), Q(y[1], x[2]))
Over(x, y) == Times(x, IF y[1] < 0 THEN <<-y[2], -y[1]>> ELSE <<y[2], y[1]>>)
Less(x, y) == Minus(x, y)[1] < 0
SumOf(seq) == FoldLeft(Plus, Zero, seq)

\* "%f"
Printed(x) == Q((2 * x[1] * Decimals + x[2]) \div (2 * x[2]), Decimals)

-----------------------------------------------------------------------------
(* Training.                                                               *)

New == [positiveq |-> <<>>, negativeq |-> <<>>, transform |-> "", npoints |-> 0, b |-> <<>>,
        k |-> Zero, where |-> Zero, projpos |-> Zero, projneg |-> Zero, trained |-> {}, tested |-> {}]

Project(a, b) == SumOf([i \in DOMAIN b |-> Times(a[i], b[i])])
Vector(entry) == [i \in DOMAIN entry |-> <<entry[i], 1>>]

\* The entries a loop with a counter and a break takes: 0 is no limit.
FirstOf(queue, howmany) == IF howmany = 0 THEN queue ELSE SubSeq(queue, 1, howmany)

\* cd_meanest().
MeanEst(queue, npoints) ==
    [i \in 1..npoints |->
        Over(SumOf([n \in DOMAIN queue |-> <<queue[n][i], 1>>]), <<Len(queue), 1>>)]

\* cd_covarest().
CovarEst(positive, negative, mestpos, mestneg, npoints) ==
    LET Product(entry, mean, i, j) ==
            Times(Minus(<<entry[i], 1>>, mean[i]), Minus(<<entry[j], 1>>, mean[j]))
    IN  [i \in 1..npoints |-> [j \in 1..npoints |->
            Over(Plus(SumOf([n \in DOMAIN positive |-> Product(positive[n], mestpos, i, j)]),
                      SumOf([n \in DOMAIN negative |-> Product(negative[n], mestneg, i, j)])),
                 <<Len(positive) + Len(negative) - 2, 1>>)]]

Magnitude(x) == <<AbsInt(x[1]), x[2]>>
Swapped(seq, i, j) == [seq EXCEPT ![i] = seq[j], ![j] = seq[i]]

\* The pivot: the last of the largest elements in the rows and columns without one.
Pivot(a, ipiv) ==
    LET free == (DOMAIN a \ ipiv) \X (DOMAIN a \ ipiv)
        LastOf(best) == CHOOSE c \in best : \A o \in best : o[1] < c[1] \/ (o[1] = c[1] /\ o[2] <= c[2])
    IN  LastOf({c \in free : \A o \in free : ~Less(Magnitude(a[c[1]][c[2]]), Magnitude(a[o[1]][o[2]]))})

\* A turn of the main loop of matrix_invert(): the pivot row is brought to the diagonal and
\* eliminated from the others.
Eliminate(m, turn) ==
    LET Row(a, c) == [l \in DOMAIN a |-> Over(IF l = c THEN One ELSE a[c][l], a[c][c])]
        Next(a, c, row) ==
            [r \in DOMAIN a |->
                IF r = c THEN row
                ELSE [l \in DOMAIN a |-> Minus(IF l = c THEN Zero ELSE a[r][l], Times(row[l], a[r][c]))]]
        At(p, a, c) ==
            IF a[c][c] = Zero THEN [m EXCEPT !.singular = TRUE]
            ELSE [a |-> Next(a, c, Row(a, c)), ipiv |-> m.ipiv \cup {c},
                  swaps |-> Append(m.swaps, p), singular |-> FALSE]
        With(p) == At(p, Swapped(m.a, p[1], p[2]), p[2])
    IN  IF m.singular THEN m ELSE With(Pivot(m.a, m.ipiv))

\* matrix_invert(): at last the columns are exchanged as the rows were, in the opposite order.
ColumnsSwapped(a, p) == [r \in DOMAIN a |-> Swapped(a[r], p[1], p[2])]
MatrixInvert(a) ==
    LET Exchanged(m) == [m EXCEPT !.a = FoldLeft(ColumnsSwapped, @, Reverse(m.swaps))]
    IN  Exchanged(FoldLeft(Eliminate, [a |-> a, ipiv |-> {}, swaps |-> <<>>, singular |-> FALSE],
                           [i \in DOMAIN a |-> i]))

\* cd_setboundary().
SetBoundary(d, where) ==
    [d EXCEPT !.k =
        IF Less(d.projneg, d.projpos)
        THEN Plus(Times(Minus(d.projpos, d.projneg), where), d.projneg)
        ELSE Plus(Times(Minus(d.projneg, d.projpos), Minus(One, where)), d.projpos)]

\* cd_classify().
Classify(d, points) ==
    LET Of(val) == IF Less(d.projneg, d.projpos) THEN Less(d.k, val) ELSE Less(val, d.k)
    IN  Of(Project(points, d.b))

\* CD_PERCENT of a number of images.
Percent(n) == (n * 8) \div 10

\* Mutant of TooFew: one image is enough.
TooFewIsNone(d) == Len(d.positiveq) < 1 \/ Len(d.negativeq) < 1

TooFew(d) == Len(d.positiveq) < 2 \/ Len(d.negativeq) < 2

Unusable(why) == [New EXCEPT !.transform = why]
Untrained(d) == d.transform \in {"failed", "undefined"}

\* cd_compute().
Compute(d, test) ==
    LET npositive == IF test THEN Percent(Len(d.positiveq)) ELSE Len(d.positiveq)
        nnegative == IF test THEN Percent(Len(d.negativeq)) ELSE Len(d.negativeq)
        positive  == FirstOf(d.positiveq, npositive)
        negative  == FirstOf(d.negativeq, nnegative)
        Projected(b, mestpos, mestneg) ==
            SetBoundary([d EXCEPT !.b = b, !.projpos = Project(mestpos, b), !.projneg = Project(mestneg, b),
                                  !.trained = {<<"pos", n>> : n \in DOMAIN positive}
                                              \cup {<<"neg", n>> : n \in DOMAIN negative}],
                        d.where)
        Solved(inverse, mestpos, mestneg) ==
            IF inverse.singular THEN Unusable("failed")
            ELSE Projected([i \in 1..d.npoints |->
                                SumOf([j \in 1..d.npoints |->
                                    Times(inverse.a[i][j], Minus(mestpos[j], mestneg[j]))])],
                           mestpos, mestneg)
        Estimated(mestpos, mestneg) ==
            Solved(MatrixInvert(CovarEst(positive, negative, mestpos, mestneg, d.npoints)), mestpos, mestneg)
    IN  IF TooFew(d) THEN Unusable("failed")
        ELSE IF Len(positive) + Len(negative) = 2 THEN Unusable("undefined")
        ELSE Estimated(MeanEst(positive, d.npoints), MeanEst(negative, d.npoints))

Held(queue) == [n \in 1..Len(queue) - Percent(Len(queue)) |-> queue[Percent(Len(queue)) + n]]

\* The rate of false positives among the images that were held back.
FalseRate(d) ==
    LET held == Held(d.negativeq)
    IN  Q(Cardinality({n \in DOMAIN held : Classify(d, Vector(held[n]))}), Len(held))

\* for (where = -1; where <= 2; where += 0.15)
Wheres == [n \in 1..21 |-> Q(15 * (n - 1) - 100, 100)]

\* cd_test(): the first boundary with a rate below 1 is kept.
CdTest(d) ==
    LET First(good) == IF good = {} THEN <<1, 2>> ELSE Wheres[Min(good)]
        where == First({n \in DOMAIN Wheres : Less(FalseRate(SetBoundary(d, Wheres[n])), One)})
    IN  [SetBoundary(d, Wheres[Len(Wheres)]) EXCEPT !.where = where,
            !.tested = {<<"pos", n>> : n \in Percent(Len(d.positiveq)) + 1..Len(d.positiveq)}
                       \cup {<<"neg", n>> : n \in Percent(Len(d.negativeq)) + 1..Len(d.negativeq)}]

-----------------------------------------------------------------------------
(* Detecting.                                                              *)

\* cd_dump() and cd_read().
DumpAndRead(d) ==
    [New EXCEPT !.transform = d.transform, !.npoints = d.npoints, !.b = [i \in DOMAIN d.b |-> Printed(d.b[i])],
                !.projpos = Printed(d.projpos), !.projneg = Printed(d.projneg), !.k = Printed(d.k)]

\* The place of the boundary main() chooses for an argument of -s.
WhereOf(scale) ==
    IF scale[1] < 0 THEN Zero
    ELSE IF Less(scale, One) THEN Over(scale, <<2, 1>>)
    ELSE Minus(One, Over(One, Times(<<2, 1>>, scale)))

AdjustedTo(d, scale) == SetBoundary(d, Minus(One, WhereOf(scale)))

-----------------------------------------------------------------------------

DiscriminantInit == training = "reading" /\ cdd = New /\ decision = New

\* A line of cd_process_file(): all lines have the transform and the number of points of the first.
ProcessLine ==
    /\ training = "reading"
    /\ \E positive \in BOOLEAN, tfname \in Transforms, points \in Vectors :
        LET q == IF positive THEN cdd.positiveq ELSE cdd.negativeq
            d == [cdd EXCEPT !.transform = tfname, !.npoints = Len(points)]
        IN  /\ Len(q) < (IF positive THEN MaxPositive ELSE MaxNegative)
            /\ IF /\ cdd.transform \in {"", tfname}
                  /\ cdd.npoints \in {0, Len(points)}
               THEN /\ cdd' = IF positive THEN [d EXCEPT !.positiveq = Append(@, points)]
                                          ELSE [d EXCEPT !.negativeq = Append(@, points)]
                    /\ UNCHANGED training
               ELSE training' = "failed" /\ UNCHANGED cdd
    /\ UNCHANGED decision

\* cd_compute() for the test.
Train ==
    /\ training = "reading"
    /\ \E d \in {Compute(cdd, TRUE)} :
        IF Untrained(d) THEN training' = d.transform /\ UNCHANGED cdd ELSE training' = "training" /\ cdd' = d
    /\ UNCHANGED decision

TestAccuracy ==
    /\ training = "training"
    /\ training' = "tested" /\ cdd' = CdTest(cdd)
    /\ UNCHANGED decision

\* cd_compute() with all images, and cd_dump().
TrainAll ==
    /\ training = "tested"
    /\ \E d \in {Compute(cdd, FALSE)} :
        IF Untrained(d) THEN training' = d.transform /\ UNCHANGED <<cdd, decision>>
        ELSE training' = "printed" /\ cdd' = d /\ decision' = DumpAndRead(d)

\* The boundary that was found is not used: main() sets its own.
Detecting ==
    /\ training \in {"printed", "detecting"}
    /\ training' = "detecting"
    /\ \E scale \in Scales : decision' = AdjustedTo(decision, scale)
    /\ UNCHANGED cdd

DiscriminantNext == ProcessLine \/ Train \/ TestAccuracy \/ TrainAll \/ Detecting
DiscriminantSpec == DiscriminantInit /\ [][DiscriminantNext]_discriminantVars

-----------------------------------------------------------------------------

\* The accuracy is measured with images the decision was not trained with, of both kinds; and
\* what is printed was trained with all of them (cd_compute(), cd_test()).
HeldOut ==
    LET all == {<<"pos", n>> : n \in DOMAIN cdd.positiveq} \cup {<<"neg", n>> : n \in DOMAIN cdd.negativeq}
    IN  /\ training = "training" => \A kind \in {"pos", "neg"} : \E t \in all \ cdd.trained : t[1] = kind
        /\ training = "tested" => cdd.tested = all \ cdd.trained
        /\ training = "printed" => cdd.trained = all

\* The projection solves the linear system: the covariances times it are the difference of the
\* means, whatever pivots the inversion took and rows it exchanged; so the images with hidden
\* content are on the upper side of the boundary in the middle, and the others below.
ProjectionSolves ==
    training = "printed" =>
        LET mestpos == MeanEst(cdd.positiveq, cdd.npoints)
            mestneg == MeanEst(cdd.negativeq, cdd.npoints)
            covar   == CovarEst(cdd.positiveq, cdd.negativeq, mestpos, mestneg, cdd.npoints)
        IN  /\ \A i \in DOMAIN cdd.b : Project(covar[i], cdd.b) = Minus(mestpos[i], mestneg[i])
            /\ ~Less(cdd.projpos, cdd.projneg)
            /\ mestpos # mestneg =>
                /\ Classify(SetBoundary(cdd, <<1, 2>>), mestpos)
                /\ ~Classify(SetBoundary(cdd, <<1, 2>>), mestneg)

\* What is trained, tested and printed is what it should be (discrimination.c).
TrainingRight == HeldOut /\ ProjectionSolves

\* "The higher the number the more sensitive the test will become" (stegdetect.1:46): what is
\* found with an argument of -s is found with every higher one, also with the rounded numbers
\* of a decision that was printed.
MoreSensitive ==
    training = "detecting" =>
        \A s, t \in Scales, v \in Vectors :
            (Less(s, t) /\ Len(v) = decision.npoints)
                => (Classify(AdjustedTo(decision, s), Vector(v)) => Classify(AdjustedTo(decision, t), Vector(v)))

\* "Find a false positive rate that is below 1%" (discrimination.c:563).
FalsePositivesRare ==
    (training = "tested" /\ cdd.where # <<1, 2>>) => Less(FalseRate(SetBoundary(cdd, cdd.where)), <<1, 100>>)
=============================================================================

---------------------------- MODULE RoutingProofs ----------------------------
(***************************************************************************)
(* Theorems about Routing, for every configuration, every request, every   *)
(* answer and every width of integers: which route is chosen, which        *)
(* backend is called, what is refused, and that the bounded reads pass on  *)
(* whole bodies within the limit.                                          *)
(*                                                                         *)
(* Induction over sequences is done with least elements: a set of naturals *)
(* has one (LeastNatural), and so a bound on the first k routes that       *)
(* failed for some k would fail for a least one.                           *)
(***************************************************************************)
EXTENDS Routing, TLAPS, WellFoundedInduction, FiniteSetTheorems, SequenceTheorems

-----------------------------------------------------------------------------
(* Natural numbers and int64 arithmetic.                                   *)

\* A set of naturals that is not empty has a least element.
LEMMA LeastNatural ==
  ASSUME NEW T, T \subseteq Nat, T # {}
  PROVE  \E x \in T : \A y \in T : x <= y
<1> DEFINE R == {ss \in Nat \X Nat : ss[1] < ss[2]}
<1>1. IsWellFoundedOn(R, Nat)
  BY NatLessThanWellFounded DEF OpToRel
<1>2. PICK x \in T : \A y \in T : <<y, x>> \notin R
  BY <1>1, WFMin, Zenon
<1>3. \A y \in T : ~(y < x)
  BY <1>2
<1> QED
  BY <1>3

\* A set of naturals that has a bound and is not empty has a greatest element.
LEMMA GreatestNatural ==
  ASSUME NEW b \in Nat, NEW T, T \subseteq 0..b, T # {}
  PROVE  \E x \in T : \A y \in T : x >= y
<1> DEFINE U == {b - y : y \in T}
<1>1. U \subseteq Nat /\ U # {}
  <2>1. \A y \in T : b - y \in Nat
    OBVIOUS
  <2>2. PICK y : y \in T
    OBVIOUS
  <2>3. b - y \in U
    BY <2>2
  <2> QED BY <2>1, <2>3
<1>2. PICK u \in U : \A v \in U : u <= v
  BY <1>1, LeastNatural, Zenon
<1>3. PICK x \in T : u = b - x
  OBVIOUS
<1>4. \A y \in T : b - x <= b - y
  BY <1>2, <1>3
<1> QED
  BY <1>4

\* Wrap gives an int64, whatever it is given.
LEMMA WrapRange ==
  ASSUME NEW n \in Int
  PROVE  Wrap(n) \in Int /\ Wrap(n) <= MaxInt
<1> DEFINE k == 2 * (MaxInt + 1)
<1>1. k \in Nat \ {0}
  BY MaxIntAssumption
<1>2. (n + MaxInt + 1) \in Int
  BY MaxIntAssumption
<1>3. (n + MaxInt + 1) % k \in 0..(k - 1)
  BY <1>1, <1>2
<1> QED
  BY <1>3, MaxIntAssumption DEF Wrap

\* An int64 stays what it is.
LEMMA WrapSmall ==
  ASSUME NEW n \in 0..MaxInt
  PROVE  Wrap(n) = n
<1> DEFINE k == 2 * (MaxInt + 1)
           x == n + MaxInt + 1
<1>1. k \in Nat \ {0} /\ x \in 0..(k - 1)
  BY MaxIntAssumption
<1>2. x % k = x
  <2> HIDE DEF k, x
  <2> QED BY <1>1
<1> QED
  BY <1>2, MaxIntAssumption DEF Wrap

\* Wrapping around never makes a product larger.
LEMMA WrapBelow ==
  ASSUME NEW n \in Nat
  PROVE  Wrap(n) <= n
<1> DEFINE k == 2 * (MaxInt + 1)
           x == n + MaxInt + 1
<1>1. k \in Nat \ {0} /\ x \in Nat
  BY MaxIntAssumption
<1>2. x % k <= x /\ x % k \in Int
  <2> HIDE DEF k, x
  <2> QED BY <1>1
<1> QED
  BY <1>2, MaxIntAssumption DEF Wrap

\* parseBytes gives an int64 not above the product, and the product itself where it fits.
LEMMA ParseBytesRange ==
  ASSUME NEW s \in Size
  PROVE  /\ s.n * s.unit \in Nat
         /\ s.n > 0 => s.n * s.unit > 0
         /\ ParseBytes(s) \in Int /\ ParseBytes(s) <= MaxInt
         /\ ParseBytes(s) <= s.n * s.unit
         /\ s.n * s.unit <= MaxInt => ParseBytes(s) = s.n * s.unit
<1>1. s.n \in Nat /\ s.unit \in Nat \ {0}
  BY DEF Size
<1>2. s.n * s.unit \in Nat /\ (s.n > 0 => s.n * s.unit > 0)
  BY <1>1
<1>3. s.n * s.unit <= MaxInt => s.n * s.unit \in 0..MaxInt
  BY <1>2, MaxIntAssumption
<1> QED
  BY <1>2, <1>3, WrapRange, WrapSmall, WrapBelow DEF ParseBytes

\* The limits in force are positive int64s, for any sizes of a route.
LEMMA LimitRange ==
  ASSUME NEW inline \in Size, NEW whole \in Size, NEW default \in 1..MaxInt
  PROVE  Limit(inline, whole, default) \in 1..MaxInt
BY ParseBytesRange, MaxIntAssumption DEF Limit

\* RequestLimit and ResponseLimit of a route.
LEMMA RouteLimits ==
  ASSUME NEW r \in Route
  PROVE  RequestLimit(r) \in 1..MaxInt /\ ResponseLimit(r) \in 1..MaxInt
<1>1. /\ r.maxInlineRequest \in Size /\ r.maxRequestBody \in Size
      /\ r.maxInlineResponse \in Size /\ r.maxResponseBody \in Size
  BY DEF Route
<1> QED
  BY <1>1, LimitRange, DefaultAssumption DEF RequestLimit, ResponseLimit

\* What readBounded returns is a length, and where it is not refused as too
\* large it is the whole body, unless limit+1 wraps.
LEMMA ReadBoundedWhole ==
  ASSUME NEW size \in Nat, NEW limit \in 1..MaxInt
  PROVE  /\ ReadBounded(size, limit) \in 0..MaxInt
         /\ limit < MaxInt /\ ~TooLarge(ReadBounded(size, limit), limit) =>
              ReadBounded(size, limit) = size
<1>1. Wrap(limit + 1) \in Int /\ Wrap(limit + 1) <= MaxInt
  BY WrapRange, MaxIntAssumption
<1>2. limit < MaxInt => Wrap(limit + 1) = limit + 1
  BY WrapSmall, MaxIntAssumption
<1> QED
  BY <1>1, <1>2, MaxIntAssumption DEF ReadBounded, TooLarge

-----------------------------------------------------------------------------
(* sortRoutes and matchRoute.                                              *)

\* The length that sortRoutes compares.
RouteLength(r) == Len(r.prefix) + Len(r.exact)

\* A route of a configuration has its type, and its length is a number.
LEMMA RouteAt ==
  ASSUME NEW routes \in Seq(Route)
  PROVE  /\ Len(routes) \in Nat /\ DOMAIN routes = 1..Len(routes)
         /\ \A i \in DOMAIN routes : routes[i] \in Route /\ RouteLength(routes[i]) \in Nat
<1>1. /\ Len(routes) \in Nat /\ DOMAIN routes = 1..Len(routes)
      /\ \A i \in DOMAIN routes : routes[i] \in Route
  OBVIOUS
<1>2. ASSUME NEW r \in Route PROVE RouteLength(r) \in Nat
  <2>1. r.prefix \in Seq(STRING) /\ r.exact \in Seq(STRING)
    BY DEF Route, Path
  <2>2. PICK m \in Nat, n \in Nat : Len(r.prefix) = m /\ Len(r.exact) = n
    BY <2>1
  <2>3. RouteLength(r) = m + n
    BY <2>2, Zenon DEF RouteLength
  <2> QED
    BY <2>3
<1> QED
  BY <1>1, <1>2

\* The lengths of finitely many routes have a bound.
LEMMA LengthsBounded ==
  ASSUME NEW routes \in Seq(Route)
  PROVE  \E b \in Nat : \A i \in DOMAIN routes : RouteLength(routes[i]) <= b
<1> DEFINE Bounded(k) == \E b \in Nat : \A i \in 1..k : RouteLength(routes[i]) <= b
           Fails == {k \in 0..Len(routes) : ~Bounded(k)}
<1>0. Len(routes) \in Nat /\ DOMAIN routes = 1..Len(routes)
  BY RouteAt
<1>1. \A i \in 1..Len(routes) : RouteLength(routes[i]) \in Nat
  BY RouteAt
<1>2. Fails = {}
  <2> SUFFICES ASSUME Fails # {} PROVE FALSE
    OBVIOUS
  <2>1. PICK k \in Fails : \A m \in Fails : k <= m
    <3>1. Fails \subseteq Nat
      BY <1>0
    <3> QED BY <3>1, LeastNatural, Zenon
  <2>2. Bounded(0)
    <3>1. \A i \in 1..0 : RouteLength(routes[i]) <= 0
      OBVIOUS
    <3> QED BY <3>1
  <2>3. k - 1 \in 0..Len(routes) /\ k - 1 \notin Fails /\ k \in 1..Len(routes)
    <3>1. k # 0 /\ k \in 0..Len(routes)
      BY <2>2
    <3>2. k - 1 \in 0..Len(routes) /\ ~(k <= k - 1) /\ k \in 1..Len(routes)
      BY <3>1, <1>0
    <3> HIDE DEF Fails
    <3> QED BY <3>2, <2>1
  <2>4. PICK b \in Nat : \A i \in 1..(k - 1) : RouteLength(routes[i]) <= b
    BY <2>3
  <2>5. PICK c \in Nat : c = RouteLength(routes[k])
    BY <1>1, <2>3
  <2>6. \A i \in 1..k : i = k \/ i \in 1..(k - 1)
    BY <2>3
  <2>7. \A i \in 1..k : RouteLength(routes[i]) <= b + c
    <3> SUFFICES ASSUME NEW i \in 1..k PROVE RouteLength(routes[i]) <= b + c
      OBVIOUS
    <3> HIDE DEF Fails, Bounded
    <3>0. i \in 1..Len(routes)
      BY <1>0, <2>3
    <3>1. RouteLength(routes[i]) \in Nat
      BY <1>1, <3>0
    <3> QED BY <3>1, <2>4, <2>5, <2>6
  <2>8. b + c \in Nat
    OBVIOUS
  <2>9. Bounded(k)
    BY <2>7, <2>8
  <2> QED BY <2>9
<1>3. Len(routes) \in 0..Len(routes)
  BY <1>0
<1> QED
  BY <1>0, <1>2, <1>3

\* Among routes that match there is one that sortRoutes puts before the others.
LEMMA FirstOfFound ==
  ASSUME NEW routes \in Seq(Route), NEW found, found \subseteq DOMAIN routes, found # {}
  PROVE  \E i \in found : \A j \in found \ {i} : SortsBefore(routes, i, j)
<1> DEFINE length(i) == RouteLength(routes[i])
<1>0. found \subseteq Nat
  BY RouteAt
<1>1. PICK b \in Nat : \A i \in DOMAIN routes : length(i) <= b
  BY LengthsBounded
<1>2. ASSUME NEW i \in found PROVE length(i) \in Nat
  BY RouteAt
<1> DEFINE L == {length(i) : i \in found}
<1>3. L # {} /\ L \subseteq 0..b
  <2> SUFFICES ASSUME NEW i \in found PROVE length(i) \in 0..b
    OBVIOUS
  <2>1. length(i) <= b /\ length(i) \in Nat
    BY <1>1, <1>2
  <2> HIDE DEF length
  <2> QED BY <2>1
<1>4. PICK m \in L : \A l \in L : m >= l
  BY <1>3, GreatestNatural, Zenon
<1> DEFINE U == {i \in found : length(i) = m}
<1>5. U # {} /\ U \subseteq Nat
  BY <1>0
<1>6. PICK i \in U : \A j \in U : i <= j
  BY <1>5, LeastNatural, Zenon
<1>7. ASSUME NEW j \in found \ {i}
      PROVE  length(i) > length(j) \/ (length(i) = length(j) /\ i < j)
  <2>1. m >= length(j) /\ length(j) \in Nat /\ length(i) = m /\ m \in Nat
    BY <1>2, <1>4
  <2>2. length(j) = m => i <= j
    BY <1>6
  <2>3. i \in Nat /\ j \in Nat /\ i # j
    BY <1>0
  <2> HIDE DEF length
  <2> QED BY <2>1, <2>2, <2>3
<1> QED
  BY <1>7 DEF SortsBefore, RouteLength

\* matchRoute's result is a route of the mode that matches, and no other that
\* matches has longer patterns.
LEMMA MatchRouteFound ==
  ASSUME NEW routes \in Seq(Route), NEW mode, NEW q, MatchRoute(routes, mode, q) # None
  PROVE  \E i \in DOMAIN routes :
           /\ MatchRoute(routes, mode, q) = routes[i]
           /\ routes[i].mode = mode /\ Matches(routes[i], q)
           /\ \A j \in DOMAIN routes :
                routes[j].mode = mode /\ Matches(routes[j], q) =>
                  RouteLength(routes[j]) <= RouteLength(routes[i])
<1> DEFINE found == {i \in DOMAIN routes : routes[i].mode = mode /\ Matches(routes[i], q)}
<1>1. found # {} /\ found \subseteq DOMAIN routes
  BY DEF MatchRoute
<1>2. PICK i : i = CHOOSE k \in found : \A j \in found \ {k} : SortsBefore(routes, k, j)
  OBVIOUS
<1>3. i \in found /\ \A j \in found \ {i} : SortsBefore(routes, i, j)
  <2>1. \E k \in found : \A j \in found \ {k} : SortsBefore(routes, k, j)
    BY <1>1, FirstOfFound, Zenon
  <2> QED BY <2>1, <1>2, Zenon
<1>4. MatchRoute(routes, mode, q) = routes[i]
  BY <1>1, <1>2, Zenon DEF MatchRoute
<1>5. ASSUME NEW j \in found PROVE RouteLength(routes[j]) <= RouteLength(routes[i])
  <2>1. RouteLength(routes[i]) \in Nat /\ RouteLength(routes[j]) \in Nat
    BY <1>3, RouteAt
  <2>2. j # i => SortsBefore(routes, i, j)
    BY <1>3
  <2>3. j # i => \/ RouteLength(routes[i]) > RouteLength(routes[j])
                 \/ RouteLength(routes[i]) = RouteLength(routes[j])
    BY <2>2, Zenon DEF SortsBefore, RouteLength
  <2> QED
    BY <2>1, <2>3
<1> QED
  BY <1>3, <1>4, <1>5

-----------------------------------------------------------------------------
(* matchRoute's rest of the path, and what the envelopes refuse of it.     *)

\* The characters; the provers do not take a literal for an element of STRING.
Char == STRING \cup {"/", "?"}

\* A path is a sequence of these characters.
LEMMA PathChars ==
  ASSUME NEW p \in Path
  PROVE  p \in Seq(Char)
BY DEF Path, Char

\* A path of one character.
LEMMA OneCharacter ==
  ASSUME NEW c \in Char
  PROVE  /\ <<c>> \in Seq(Char) /\ Len(<<c>>) = 1 /\ <<c>>[1] = c
         /\ Head(<<c>>) = c /\ <<c>> # <<>>
OBVIOUS

\* withQuery keeps the first character.
LEMMA WithQueryHead ==
  ASSUME NEW path \in Seq(Char), NEW query \in Seq(Char), path # <<>>
  PROVE  Head(WithQuery(path, query)) = Head(path)
<1>1. Len(path) >= 1
  BY EmptySeq
<1>2. PICK mark \in Seq(Char) : mark = <<"?">> /\ Len(mark) = 1
  BY OneCharacter DEF Char
<1>a. path \o mark \in Seq(Char) /\ Len(path \o mark) >= 1 /\ (path \o mark)[1] = path[1]
  BY <1>1, <1>2
<1>3. PICK p \in Seq(Char) : p = path \o <<"?">> /\ Len(p) >= 1 /\ p[1] = path[1]
  BY <1>2, <1>a, Zenon
<1>4. (p \o query)[1] = p[1] /\ p \o query # <<>>
  BY <1>3
<1>5. Head(p \o query) = Head(path)
  BY <1>1, <1>3, <1>4
<1> QED
  BY <1>3, <1>5, Zenon DEF WithQuery

\* withQuery adds no character but a "?" and those of the query.
LEMMA WithQueryContains ==
  ASSUME NEW path \in Seq(Char), NEW query \in Seq(Char), Contains(WithQuery(path, query), "#")
  PROVE  Contains(path, "#") \/ Contains(query, "#")
<1>1. CASE query = <<>>
  BY <1>1, Zenon DEF WithQuery
<1>2. CASE query # <<>>
  <2>0. PICK mark \in Seq(Char) : mark = <<"?">> /\ Len(mark) = 1 /\ mark[1] = "?"
    BY OneCharacter DEF Char
  <2>1. PICK p \in Seq(Char) : p = path \o mark
    BY ConcatProperties, Zenon
  <2>2. PICK i \in 1..Len(p \o query) : (p \o query)[i] = "#"
    BY <1>2, <2>0, <2>1, Zenon DEF WithQuery, Contains
  <2>3. Len(p \o query) = Len(p) + Len(query) /\ Len(p) \in Nat /\ Len(query) \in Nat
    OBVIOUS
  <2>4. CASE i <= Len(p)
    <3>1. p[i] = "#" /\ i \in 1..Len(p)
      BY <2>2, <2>3, <2>4
    <3>2. Len(p) = Len(path) + 1 /\ p[Len(path) + 1] = "?" /\ Len(path) \in Nat
      BY <2>0, <2>1
    <3>3. i \in 1..Len(path)
      BY <3>1, <3>2
    <3>4. path[i] = p[i]
      BY <2>1, <3>3
    <3> QED BY <3>1, <3>3, <3>4 DEF Contains
  <2>5. CASE i > Len(p)
    <3>1. i - Len(p) \in 1..Len(query)
      BY <2>2, <2>3, <2>5
    <3>2. query[i - Len(p)] = "#"
      BY <2>2, <2>3, <2>5, <3>1
    <3> QED BY <3>1, <3>2 DEF Contains
  <2> QED BY <2>2, <2>3, <2>4, <2>5
<1> QED
  BY <1>1, <1>2

\* The rest of a matched path starts with "/" unless the prefix ends in one.
LEMMA SuffixRefused ==
  ASSUME NEW r \in Route, NEW q \in Request, Matches(r, q),
         Head(Suffix(r, q)) # "/" \/ Contains(Suffix(r, q), "#")
  PROVE  \/ Contains(q.path, "#") \/ Contains(q.query, "#")
         \/ /\ r.prefix # <<>> /\ Last(r.prefix) = "/"
            /\ Len(q.path) > Len(r.prefix)
<1> DEFINE rest == SubSeq(q.path, Len(r.prefix) + 1, Len(q.path))
<1>1. q.path \in Seq(Char) /\ q.query \in Seq(Char) /\ r.prefix \in Seq(Char)
  <2>1. q.path \in Path /\ q.query \in Path /\ r.prefix \in Path
    BY DEF Route, Request
  <2> QED BY <2>1, PathChars
<1>2. <<"/">> \in Seq(Char) /\ <<"/">> # <<>> /\ Head(<<"/">>) = "/" /\ ~Contains(<<"/">>, "#")
  BY OneCharacter DEF Char, Contains
<1>3. CASE Suffix(r, q) = WithQuery(<<"/">>, q.query)
  <2>1. Head(WithQuery(<<"/">>, q.query)) = "/"
    BY <1>1, <1>2, WithQueryHead, Zenon
  <2>2. Contains(WithQuery(<<"/">>, q.query), "#") => Contains(q.query, "#")
    BY <1>1, <1>2, WithQueryContains, Zenon
  <2> QED BY <1>3, <2>1, <2>2, Zenon
<1>4. CASE Suffix(r, q) # WithQuery(<<"/">>, q.query)
  <2>1. rest # <<>> /\ Suffix(r, q) = WithQuery(rest, q.query)
    BY <1>4, Zenon DEF Suffix
  <2>2. r.prefix # <<>> /\ PathHasPrefix(q.path, r.prefix)
    BY <1>4, Zenon DEF Matches, Suffix
  <2>3. PICK p \in Seq(Char), f \in Seq(Char) : p = q.path /\ f = r.prefix
    BY <1>1
  <2>4. /\ rest \in Seq(Char) /\ Len(q.path) > Len(r.prefix)
        /\ Head(rest) = q.path[Len(r.prefix) + 1]
        /\ Contains(rest, "#") => Contains(q.path, "#")
    <3>1. Len(p) \in Nat /\ Len(f) \in Nat
      BY <2>3
    <3>a. SubSeq(p, Len(f) + 1, Len(p)) # <<>>
      BY <2>1, <2>3, Zenon
    <3>b. Len(f) + 1 \in Nat
      BY <3>1
    <3>2. Len(p) > Len(f)
      <4> SUFFICES ASSUME ~(Len(p) > Len(f)) PROVE FALSE
        OBVIOUS
      <4>1. Len(f) + 1 > Len(p)
        BY <3>1
      <4>2. SubSeq(p, Len(f) + 1, Len(p)) = <<>>
        BY <4>1, <3>1, <3>b
      <4> QED BY <4>2, <3>a
    <3>3. PICK t \in Seq(Char) : t = SubSeq(p, Len(f) + 1, Len(p))
      <4>1. \A i \in (Len(f) + 1)..Len(p) : p[i] \in Char
        BY <3>1
      <4>2. Len(f) + 1 \in Int /\ Len(p) \in Int
        BY <3>1
      <4>3. SubSeq(p, Len(f) + 1, Len(p)) \in Seq(Char)
        BY <4>1, <4>2, SubSeqProperties, Zenon
      <4> QED BY <4>3, Zenon
    <3>4. Len(t) = Len(p) - Len(f) /\ \A i \in 1..Len(t) : t[i] = p[Len(f) + i]
      BY <3>1, <3>2, <3>3
    <3>5. Head(t) = p[Len(f) + 1]
      BY <3>1, <3>2, <3>3, <3>4
    <3>6. Contains(t, "#") => Contains(p, "#")
      <4> SUFFICES ASSUME NEW i \in 1..Len(t), t[i] = "#" PROVE Contains(p, "#")
        BY DEF Contains
      <4>1. Len(f) + i \in 1..Len(p) /\ p[Len(f) + i] = "#"
        BY <3>1, <3>2, <3>4
      <4> QED BY <4>1 DEF Contains
    <3> QED BY <2>3, <3>2, <3>3, <3>5, <3>6, Zenon
  <2>5. Last(r.prefix) = "/" \/ q.path[Len(r.prefix) + 1] = "/"
    <3>1. q.path # r.prefix
      BY <1>1, <2>4
    <3> QED BY <2>2, <3>1, Zenon DEF PathHasPrefix
  <2>6. Head(WithQuery(rest, q.query)) = Head(rest)
    BY <1>1, <2>1, <2>4, WithQueryHead, Zenon
  <2>7. Contains(WithQuery(rest, q.query), "#") => Contains(rest, "#") \/ Contains(q.query, "#")
    BY <1>1, <2>4, WithQueryContains, Zenon
  <2> QED BY <2>1, <2>2, <2>4, <2>5, <2>6, <2>7, Zenon
<1> QED
  BY <1>3, <1>4

-----------------------------------------------------------------------------
(* The segments of a path.                                                 *)

\* The slashes up to a place: none before the first, one more at a slash.
LEMMA SegmentNoStep ==
  ASSUME NEW p, NEW i \in Nat
  PROVE  /\ SegmentNo(p, 0) = 0 /\ SegmentNo(p, i) \in Nat
         /\ p[i + 1] = "/" => SegmentNo(p, i + 1) = SegmentNo(p, i) + 1
         /\ p[i + 1] # "/" => SegmentNo(p, i + 1) = SegmentNo(p, i)
<1> DEFINE S(n) == {j \in 1..n : p[j] = "/"}
<1>1. S(0) = {}
  OBVIOUS
<1>2. IsFiniteSet(S(i))
  <2>1. IsFiniteSet(1..i)
    BY FS_Interval
  <2>2. S(i) \in SUBSET (1..i)
    OBVIOUS
  <2> QED BY <2>1, <2>2, FS_Subset, Zenon
<1>3. Cardinality(S(i)) \in Nat
  BY <1>2, FS_CardinalityType
<1>4. p[i + 1] = "/" => S(i + 1) = S(i) \cup {i + 1}
  OBVIOUS
<1>5. p[i + 1] # "/" => S(i + 1) = S(i)
  OBVIOUS
<1>6. i + 1 \notin S(i)
  OBVIOUS
<1>7. \A n : SegmentNo(p, n) = Cardinality(S(n))
  BY Zenon DEF SegmentNo
<1> HIDE DEF S
<1>8. Cardinality(S(i) \cup {i + 1}) = Cardinality(S(i)) + 1
  BY <1>2, <1>6, FS_AddElement
<1> QED
  BY <1>1, <1>3, <1>4, <1>5, <1>7, <1>8, FS_EmptySet, Zenon

\* Two places have the segment number in their order.
LEMMA SegmentNoGrows ==
  ASSUME NEW p, NEW i \in Nat, NEW j \in Nat, i <= j
  PROVE  SegmentNo(p, i) <= SegmentNo(p, j)
<1>1. IsFiniteSet({n \in 1..j : p[n] = "/"})
  <2>1. IsFiniteSet(1..j)
    BY FS_Interval
  <2>2. {n \in 1..j : p[n] = "/"} \in SUBSET (1..j)
    OBVIOUS
  <2> QED BY <2>1, <2>2, FS_Subset, Zenon
<1>2. {n \in 1..i : p[n] = "/"} \in SUBSET {n \in 1..j : p[n] = "/"}
  OBVIOUS
<1> QED
  BY <1>1, <1>2, FS_Subset, Zenon DEF SegmentNo

\* The smallest and the largest element are what Min and Max choose.
LEMMA MinMaxOf ==
  ASSUME NEW T, T \subseteq Nat, NEW x \in T, NEW y \in T, \A z \in T : x <= z /\ z <= y
  PROVE  Min(T) = x /\ Max(T) = y
<1>1. \E m \in T : \A z \in T : m =< z
  OBVIOUS
<1>2. Min(T) \in T /\ \A z \in T : Min(T) =< z
  BY <1>1, Zenon DEF Min
<1>3. \E m \in T : \A z \in T : m >= z
  OBVIOUS
<1>4. Max(T) \in T /\ \A z \in T : Max(T) >= z
  BY <1>3, Zenon DEF Max
<1>5. PICK a \in Nat, b \in Nat : a = Min(T) /\ b = Max(T)
  BY <1>2, <1>4
<1>6. a <= x /\ x <= a /\ b >= y /\ y >= b
  BY <1>2, <1>4, <1>5
<1>7. x \in Nat /\ y \in Nat
  OBVIOUS
<1> QED
  BY <1>5, <1>6, <1>7

\* The places from x to y are segment k of p; the first of them is its slash.
IsSegment(p, k, x, y) ==
  /\ x \in 1..Len(p) /\ y \in 1..Len(p) /\ x <= y /\ p[x] = "/"
  /\ \A i \in 1..Len(p) : SegmentNo(p, i) = k <=> x <= i /\ i <= y

\* Every segment is a run of places that starts with a slash.
LEMMA SegmentPlaces ==
  ASSUME NEW p \in Seq(Char), NEW k \in 1..SegmentNo(p, Len(p))
  PROVE  \E x \in Nat, y \in Nat : IsSegment(p, k, x, y)
<1>1. PICK n \in Nat : n = Len(p)
  BY LenProperties
<1>2. \A i \in Nat : SegmentNo(p, i) \in Nat
  BY SegmentNoStep
<1>3. k \in Nat /\ 1 <= k /\ k <= SegmentNo(p, n)
  BY <1>1, <1>2
<1> DEFINE T == {i \in 0..n : SegmentNo(p, i) >= k}
           U == {i \in 0..n : SegmentNo(p, i) <= k}
<1>4. PICK x \in T : \A i \in T : x <= i
  <2>1. T \subseteq Nat /\ n \in T
    BY <1>3
  <2> QED BY <2>1, LeastNatural, Zenon
<1>5. PICK y \in U : \A i \in U : y >= i
  <2>1. U \subseteq 0..n /\ 0 \in U
    BY <1>3, SegmentNoStep
  <2> QED BY <2>1, GreatestNatural, Zenon
<1>6. x # 0 /\ x \in Nat /\ x - 1 \in Nat /\ x - 1 \in 0..n
  <2>1. x # 0
    BY <1>3, SegmentNoStep
  <2> QED BY <2>1
<1>7. SegmentNo(p, x - 1) < k
  <2>1. x - 1 \notin T
    BY <1>4, <1>6
  <2> QED BY <2>1, <1>2, <1>3, <1>6
<1>8. p[x] = "/" /\ SegmentNo(p, x) = k
  <2>1. PICK w \in Nat : w = x - 1
    BY <1>6
  <2>2. x = w + 1
    BY <1>6, <2>1
  <2>3. SegmentNo(p, w) < k /\ SegmentNo(p, w + 1) >= k /\ SegmentNo(p, w) \in Nat
    BY <1>2, <1>7, <2>1, <2>2
  <2>4. p[w + 1] = "/" /\ SegmentNo(p, w + 1) = SegmentNo(p, w) + 1
    <3>1. p[w + 1] # "/" => SegmentNo(p, w + 1) = SegmentNo(p, w)
      BY SegmentNoStep
    <3>2. p[w + 1] = "/" => SegmentNo(p, w + 1) = SegmentNo(p, w) + 1
      BY SegmentNoStep
    <3> QED BY <2>3, <3>1, <3>2, <1>3
  <2> QED BY <2>2, <2>3, <2>4, <1>3
<1>9. x <= y
  <2>1. x \in U
    BY <1>8, <1>3
  <2> QED BY <2>1, <1>5
<1>10. ASSUME NEW i \in 1..n PROVE SegmentNo(p, i) = k <=> x <= i /\ i <= y
  <2>1. i \in Nat /\ x \in Nat /\ y \in Nat /\ i \in 0..n
    BY <1>5
  <2>2. SegmentNo(p, i) = k => i \in T /\ i \in U
    BY <2>1, <1>3
  <2>3. x <= i => SegmentNo(p, x) <= SegmentNo(p, i)
    BY <2>1, SegmentNoGrows
  <2>4. i <= y => SegmentNo(p, i) <= SegmentNo(p, y)
    BY <2>1, SegmentNoGrows
  <2>5. SegmentNo(p, y) <= k /\ SegmentNo(p, y) \in Nat /\ SegmentNo(p, i) \in Nat
    BY <1>2, <2>1
  <2>6. SegmentNo(p, i) = k => x <= i /\ i <= y
    BY <1>4, <1>5, <2>1, <2>2
  <2> HIDE DEF T, U
  <2>7. x <= i /\ i <= y => SegmentNo(p, i) = k
    BY <1>3, <1>8, <2>3, <2>4, <2>5
  <2> QED BY <2>6, <2>7
<1>11. x \in 1..n /\ y \in 1..n /\ x \in Nat /\ y \in Nat
  BY <1>6, <1>9
<1> HIDE DEF T, U
<1>12. IsSegment(p, k, x, y)
  BY <1>1, <1>8, <1>9, <1>10, <1>11 DEF IsSegment
<1> QED
  BY <1>11, <1>12, Zenon

\* What Segments gives for such a run of places.
LEMMA SegmentIs ==
  ASSUME NEW p \in Seq(Char), NEW k \in 1..SegmentNo(p, Len(p)),
         NEW x \in Nat, NEW y \in Nat, IsSegment(p, k, x, y)
  PROVE  Segments(p)[k] = SubSeq(p, x + 1, y)
<1> DEFINE at == {i \in DOMAIN p : SegmentNo(p, i) = k}
<1>1. DOMAIN p = 1..Len(p) /\ Len(p) \in Nat
  BY LenProperties
<1>2. at \subseteq Nat /\ x \in at /\ y \in at /\ \A z \in at : x <= z /\ z <= y
  BY <1>1 DEF IsSegment
<1>3. Min(at) = x /\ Max(at) = y
  BY <1>2, MinMaxOf, Zenon
<1>4. Segments(p)[k] = SubSeq(p, Min(at) + 1, Max(at))
  BY Zenon DEF Segments
<1> QED
  BY <1>3, <1>4, Zenon

\* The segments of a path are a sequence of sequences of characters.
LEMMA SegmentsType ==
  ASSUME NEW p \in Seq(Char)
  PROVE  /\ SegmentNo(p, Len(p)) \in Nat
         /\ Segments(p) \in Seq(Seq(Char)) /\ Len(Segments(p)) = SegmentNo(p, Len(p))
<1>1. PICK n \in Nat : n = SegmentNo(p, Len(p))
  BY SegmentNoStep, LenProperties
<1>2. ASSUME NEW k \in 1..n PROVE Segments(p)[k] \in Seq(Char)
  <2>1. PICK x \in Nat, y \in Nat : IsSegment(p, k, x, y)
    BY <1>1, SegmentPlaces
  <2>2. Segments(p)[k] = SubSeq(p, x + 1, y)
    BY <1>1, <2>1, SegmentIs
  <2>3. \A i \in (x + 1)..y : p[i] \in Char
    <3>1. y \in 1..Len(p) /\ Len(p) \in Nat
      BY <2>1, LenProperties DEF IsSegment
    <3>2. \A i \in (x + 1)..y : i \in 1..Len(p)
      BY <3>1
    <3> QED BY <3>2, ElementOfSeq, Zenon
  <2>4. x + 1 \in Int /\ y \in Int
    OBVIOUS
  <2>5. SubSeq(p, x + 1, y) \in Seq(Char)
    BY <2>3, <2>4, SubSeqProperties, Zenon
  <2> QED BY <2>2, <2>5, Zenon
<1>3. Segments(p) = [k \in 1..n |-> Segments(p)[k]]
  BY <1>1, Zenon DEF Segments
<1>4. Segments(p) \in [1..n -> Seq(Char)]
  BY <1>2, <1>3, Zenon
<1>5. PICK s \in [1..n -> Seq(Char)] : s = Segments(p)
  BY <1>4
<1>6. s \in Seq(Seq(Char)) /\ Len(s) = n
  OBVIOUS
<1> QED
  BY <1>1, <1>5, <1>6

\* The same elements at a distance give the same subsequence.
LEMMA SubSeqSame ==
  ASSUME NEW S, NEW s, NEW t, NEW d \in Int, NEW m \in Int, NEW n \in Int,
         \A i \in m..n : s[i] \in S /\ t[i + d] = s[i]
  PROVE  SubSeq(s, m, n) = SubSeq(t, m + d, n + d)
<1> DEFINE u == SubSeq(s, m, n)
           v == SubSeq(t, m + d, n + d)
<1>1. u \in Seq(S) /\ Len(u) = (IF m <= n THEN n - m + 1 ELSE 0)
      /\ \A i \in 1..(n - m + 1) : u[i] = s[m + i - 1]
  <2>1. \A i \in m..n : s[i] \in S
    OBVIOUS
  <2>2. u \in Seq(S)
    BY <2>1, SubSeqProperties, Zenon
  <2>3. Len(u) = IF m <= n THEN n - m + 1 ELSE 0
    BY <2>1, SubSeqProperties
  <2>4. \A i \in 1..(n - m + 1) : u[i] = s[m + i - 1]
    BY <2>1, SubSeqProperties
  <2> QED BY <2>2, <2>3, <2>4, Zenon
<1>2. v \in Seq(S) /\ Len(v) = (IF m + d <= n + d THEN (n + d) - (m + d) + 1 ELSE 0)
      /\ \A i \in 1..((n + d) - (m + d) + 1) : v[i] = t[(m + d) + i - 1]
  <2>1. m + d \in Int /\ n + d \in Int
    OBVIOUS
  <2>2. \A i \in (m + d)..(n + d) : t[i] \in S
    <3> SUFFICES ASSUME NEW i \in (m + d)..(n + d) PROVE t[i] \in S
      OBVIOUS
    <3>1. i - d \in m..n /\ (i - d) + d = i
      OBVIOUS
    <3> QED BY <3>1
  <2>3. v \in Seq(S)
    BY <2>1, <2>2, SubSeqProperties, Zenon
  <2>4. Len(v) = IF m + d <= n + d THEN (n + d) - (m + d) + 1 ELSE 0
    BY <2>1, <2>2, SubSeqProperties
  <2>5. \A i \in 1..((n + d) - (m + d) + 1) : v[i] = t[(m + d) + i - 1]
    BY <2>1, <2>2, SubSeqProperties
  <2> QED BY <2>3, <2>4, <2>5, Zenon
<1> HIDE DEF u, v
<1>3. Len(u) = Len(v)
  BY <1>1, <1>2
<1>4. ASSUME NEW i \in 1..Len(u) PROVE u[i] = v[i]
  <2>0. i \in 1..(n - m + 1) /\ i \in Int
    BY <1>1
  <2>1. m + i - 1 \in m..n /\ (m + i - 1) + d = (m + d) + i - 1
        /\ i \in 1..((n + d) - (m + d) + 1)
    BY <2>0
  <2>2. u[i] = s[m + i - 1] /\ v[i] = t[(m + d) + i - 1]
    BY <1>1, <1>2, <2>0, <2>1
  <2> QED BY <2>1, <2>2
<1>5. u = v
  BY <1>1, <1>2, <1>3, <1>4, SeqEqual, Zenon
<1> QED
  BY <1>5 DEF u, v

\* What \o gives at a place of either part.
LEMMA ConcatAt ==
  ASSUME NEW S, NEW a \in Seq(S), NEW b \in Seq(S)
  PROVE  /\ Len(a) \in Nat /\ Len(b) \in Nat
         /\ a \o b \in Seq(S) /\ Len(a \o b) = Len(a) + Len(b)
         /\ \A i \in 1..Len(a) : (a \o b)[i] = a[i]
         /\ \A i \in 1..Len(b) : (a \o b)[Len(a) + i] = b[i]
<1>1. Len(a) \in Nat /\ Len(b) \in Nat
  BY LenProperties
<1>2. PICK c : c = a \o b
  OBVIOUS
<1>3. /\ c \in Seq(S) /\ Len(c) = Len(a) + Len(b)
      /\ \A i \in 1..(Len(a) + Len(b)) : c[i] = IF i <= Len(a) THEN a[i] ELSE b[i - Len(a)]
  BY <1>2, ConcatProperties, Zenon
<1>4. PICK m \in Nat, n \in Nat : m = Len(a) /\ n = Len(b)
  BY <1>1
<1>5. \A i \in 1..m : i \in 1..(m + n) /\ i <= m
  OBVIOUS
<1>6. \A i \in 1..n : m + i \in 1..(m + n) /\ ~(m + i <= m) /\ (m + i) - m = i
  OBVIOUS
<1>7. (\A i \in 1..Len(a) : c[i] = a[i]) /\ (\A i \in 1..Len(b) : c[Len(a) + i] = b[i])
  BY <1>3, <1>4, <1>5, <1>6
<1> QED
  BY <1>1, <1>2, <1>3, <1>7, Zenon

\* The segment numbers of a path in front of another.
LEMMA SegmentNoFront ==
  ASSUME NEW a, NEW c, NEW n \in Nat, \A i \in 1..n : c[i] = a[i]
  PROVE  \A i \in 0..n : SegmentNo(c, i) = SegmentNo(a, i)
<1> SUFFICES ASSUME NEW i \in 0..n PROVE SegmentNo(c, i) = SegmentNo(a, i)
  OBVIOUS
<1>1. {j \in 1..i : c[j] = "/"} = {j \in 1..i : a[j] = "/"}
  OBVIOUS
<1> QED
  BY <1>1, Zenon DEF SegmentNo

\* The segment numbers of a path behind another go on from there.
LEMMA SegmentNoBehind ==
  ASSUME NEW a \in Seq(Char), NEW b \in Seq(Char)
  PROVE  \A i \in 0..Len(b) :
           SegmentNo(a \o b, Len(a) + i) = SegmentNo(a \o b, Len(a)) + SegmentNo(b, i)
<1>a. PICK c : c = a \o b
  OBVIOUS
<1>b. PICK m \in Nat, n \in Nat : m = Len(a) /\ n = Len(b)
  BY LenProperties
<1>c. \A i \in 1..n : c[m + i] = b[i]
  <2>1. \A i \in 1..Len(b) : (a \o b)[Len(a) + i] = b[i]
    BY ConcatAt
  <2> QED BY <1>a, <1>b, <2>1, Zenon
<1> DEFINE Fails == {i \in 0..n : SegmentNo(c, m + i) # SegmentNo(c, m) + SegmentNo(b, i)}
<1>0. \A i \in Nat : SegmentNo(c, i) \in Nat /\ SegmentNo(b, i) \in Nat
  BY SegmentNoStep
<1> SUFFICES ASSUME Fails # {} PROVE FALSE
  BY <1>a, <1>b, Zenon
<1>1. PICK i \in Fails : \A j \in Fails : i <= j
  <2>1. Fails \subseteq Nat
    OBVIOUS
  <2> QED BY <2>1, LeastNatural, Zenon
<1>2. i # 0
  <2>1. SegmentNo(b, 0) = 0 /\ m + 0 = m
    BY SegmentNoStep
  <2> QED BY <1>0, <2>1
<1>3. PICK w \in Nat : i = w + 1 /\ w \in 0..n /\ i \in 1..n
  <2>1. i - 1 \in Nat /\ i = (i - 1) + 1 /\ i - 1 \in 0..n /\ i \in 1..n
    BY <1>2
  <2> QED BY <2>1
<1>4. SegmentNo(c, m + w) = SegmentNo(c, m) + SegmentNo(b, w)
  <2>1. w \notin Fails
    <3> HIDE DEF Fails
    <3> QED BY <1>1, <1>3
  <2> QED BY <2>1, <1>3
<1>5. c[(m + w) + 1] = b[w + 1] /\ (m + w) + 1 = m + i /\ m + w \in Nat
  BY <1>3, <1>c
<1>6. /\ b[w + 1] = "/" => SegmentNo(b, w + 1) = SegmentNo(b, w) + 1
      /\ b[w + 1] # "/" => SegmentNo(b, w + 1) = SegmentNo(b, w)
  BY SegmentNoStep
<1>7. /\ c[(m + w) + 1] = "/" => SegmentNo(c, (m + w) + 1) = SegmentNo(c, m + w) + 1
      /\ c[(m + w) + 1] # "/" => SegmentNo(c, (m + w) + 1) = SegmentNo(c, m + w)
  BY <1>5, SegmentNoStep
<1>8. SegmentNo(c, (m + w) + 1) = SegmentNo(c, m) + SegmentNo(b, w + 1)
  <2> HIDE DEF Fails
  <2>1. SegmentNo(c, m) \in Nat /\ SegmentNo(b, w) \in Nat
    BY <1>0
  <2>2. CASE b[w + 1] = "/"
    <3>1. /\ SegmentNo(b, w + 1) = SegmentNo(b, w) + 1
          /\ SegmentNo(c, (m + w) + 1) = SegmentNo(c, m + w) + 1
      BY <1>5, <1>6, <1>7, <2>2, Zenon
    <3> QED BY <1>4, <2>1, <3>1
  <2>3. CASE b[w + 1] # "/"
    <3>1. /\ SegmentNo(b, w + 1) = SegmentNo(b, w)
          /\ SegmentNo(c, (m + w) + 1) = SegmentNo(c, m + w)
      BY <1>5, <1>6, <1>7, <2>3, Zenon
    <3> QED BY <1>4, <3>1
  <2> QED BY <2>2, <2>3
<1> QED
  BY <1>3, <1>5, <1>8

\* A path that starts with a slash has its first place in segment 1, and every
\* other place in that or a later one.
LEMMA SegmentNoFirst ==
  ASSUME NEW b, NEW n \in Nat, b[1] = "/"
  PROVE  \A i \in 1..n : SegmentNo(b, i) >= 1
<1>1. SegmentNo(b, 0 + 1) = SegmentNo(b, 0) + 1 /\ SegmentNo(b, 0) = 0
  <2>1. b[0 + 1] = "/"
    OBVIOUS
  <2> QED BY <2>1, SegmentNoStep
<1> SUFFICES ASSUME NEW i \in 1..n PROVE SegmentNo(b, i) >= 1
  OBVIOUS
<1>2. SegmentNo(b, 1) <= SegmentNo(b, i)
  BY SegmentNoGrows
<1>3. SegmentNo(b, i) \in Nat
  BY SegmentNoStep
<1> QED
  BY <1>1, <1>2, <1>3

\* The segments of a path, followed by one that starts with a slash, are the
\* segments of the one and then those of the other.
LEMMA SegmentsConcat ==
  ASSUME NEW a \in Seq(Char), NEW b \in Seq(Char), b = <<>> \/ b[1] = "/"
  PROVE  Segments(a \o b) = Segments(a) \o Segments(b)
<1>1. PICK c \in Seq(Char) : c = a \o b
  BY ConcatProperties, Zenon
<1>2. PICK m \in Nat, n \in Nat : m = Len(a) /\ n = Len(b)
  BY LenProperties
<1>3. /\ Len(c) = m + n /\ \A i \in 1..m : c[i] = a[i] /\ a[i] \in Char
      /\ \A i \in 1..n : c[m + i] = b[i] /\ b[i] \in Char
  <2>1. Len(c) = m + n /\ (\A i \in 1..m : c[i] = a[i]) /\ \A i \in 1..n : c[m + i] = b[i]
    <3>1. /\ Len(c) = Len(a) + Len(b) /\ \A i \in 1..Len(a) : c[i] = a[i]
          /\ \A i \in 1..Len(b) : c[Len(a) + i] = b[i]
      BY <1>1, ConcatAt
    <3> QED BY <1>2, <3>1, Zenon
  <2>2. (\A i \in 1..m : a[i] \in Char) /\ (\A i \in 1..n : b[i] \in Char)
    BY <1>2, ElementOfSeq, Zenon
  <2> QED BY <2>1, <2>2, Zenon
<1>4. \A i \in 0..m : SegmentNo(c, i) = SegmentNo(a, i)
  BY <1>3, SegmentNoFront, Zenon
<1>5. PICK k \in Nat, l \in Nat : k = SegmentNo(a, m) /\ l = SegmentNo(b, n)
  BY SegmentNoStep
<1>6. SegmentNo(c, m) = k
  BY <1>4, <1>5
<1>7. \A i \in 0..n : SegmentNo(c, m + i) = k + SegmentNo(b, i)
  BY <1>1, <1>2, <1>6, SegmentNoBehind, Zenon
<1>8. \A i \in 1..n : SegmentNo(b, i) >= 1 /\ SegmentNo(b, i) \in Nat
  <2>1. \A i \in 1..n : SegmentNo(b, i) \in Nat
    BY SegmentNoStep
  <2>2. n = 0 \/ b[1] = "/"
    BY <1>2, EmptySeq
  <2>3. CASE n = 0
    BY <2>3
  <2>4. CASE b[1] = "/"
    BY <2>1, <2>4, SegmentNoFirst, Zenon
  <2> QED BY <2>2, <2>3, <2>4
<1>9. ASSUME NEW i \in 1..Len(c)
      PROVE  \/ i \in 1..m /\ i \in 0..m
             \/ \E j \in 1..n : i = m + j /\ j \in 0..n
  <2>1. i <= m \/ (i - m \in 1..n /\ i = m + (i - m) /\ i - m \in 0..n)
    BY <1>3
  <2> QED BY <2>1
<1>10. SegmentNo(c, Len(c)) = k + l
  <2>1. n \in 0..n
    OBVIOUS
  <2> QED BY <1>3, <1>5, <1>7, <2>1
<1>11. ASSUME NEW s \in 1..k PROVE Segments(c)[s] = Segments(a)[s]
  <2>1. PICK x \in Nat, y \in Nat : IsSegment(a, s, x, y)
    BY <1>2, <1>5, SegmentPlaces
  <2>2. /\ x \in 1..m /\ y \in 1..m /\ x <= y /\ a[x] = "/"
        /\ \A i \in 1..m : SegmentNo(a, i) = s <=> x <= i /\ i <= y
    BY <1>2, <2>1 DEF IsSegment
  <2>3. s \in 1..SegmentNo(c, Len(c)) /\ s \in 1..SegmentNo(a, Len(a))
    BY <1>2, <1>5, <1>10
  <2>4. IsSegment(c, s, x, y)
    <3>1. x \in 1..Len(c) /\ y \in 1..Len(c) /\ c[x] = "/"
      BY <1>3, <2>2
    <3>2. ASSUME NEW i \in 1..Len(c) PROVE SegmentNo(c, i) = s <=> x <= i /\ i <= y
      <4>1. CASE i \in 1..m /\ i \in 0..m
        BY <1>4, <2>2, <4>1
      <4>2. CASE \E j \in 1..n : i = m + j /\ j \in 0..n
        <5>1. PICK j \in 1..n : i = m + j /\ j \in 0..n
          BY <4>2
        <5>2. SegmentNo(c, i) = k + SegmentNo(b, j) /\ SegmentNo(b, j) >= 1 /\ SegmentNo(b, j) \in Nat
          BY <1>7, <1>8, <5>1
        <5> QED BY <2>2, <5>1, <5>2
      <4> QED BY <1>9, <4>1, <4>2
    <3> QED BY <2>2, <3>1, <3>2 DEF IsSegment
  <2>5. Segments(a)[s] = SubSeq(a, x + 1, y) /\ Segments(c)[s] = SubSeq(c, x + 1, y)
    BY <2>1, <2>3, <2>4, SegmentIs
  <2>6. SubSeq(a, x + 1, y) = SubSeq(c, (x + 1) + 0, y + 0)
    <3>1. \A i \in (x + 1)..y : a[i] \in Char /\ c[i + 0] = a[i]
      BY <1>3, <2>2
    <3>2. x + 1 \in Int /\ y \in Int /\ 0 \in Int
      OBVIOUS
    <3> QED BY <3>1, <3>2, SubSeqSame
  <2>7. (x + 1) + 0 = x + 1 /\ y + 0 = y
    OBVIOUS
  <2> QED BY <2>5, <2>6, <2>7, Zenon
<1>12. ASSUME NEW s \in 1..l PROVE Segments(c)[k + s] = Segments(b)[s]
  <2>1. PICK x \in Nat, y \in Nat : IsSegment(b, s, x, y)
    BY <1>2, <1>5, SegmentPlaces
  <2>2. /\ x \in 1..n /\ y \in 1..n /\ x <= y /\ b[x] = "/"
        /\ \A i \in 1..n : SegmentNo(b, i) = s <=> x <= i /\ i <= y
    BY <1>2, <2>1 DEF IsSegment
  <2>3. k + s \in 1..SegmentNo(c, Len(c)) /\ s \in 1..SegmentNo(b, Len(b))
    BY <1>2, <1>5, <1>10
  <2>4. IsSegment(c, k + s, m + x, m + y)
    <3>1. m + x \in 1..Len(c) /\ m + y \in 1..Len(c) /\ c[m + x] = "/" /\ m + x <= m + y
      BY <1>3, <2>2
    <3>2. ASSUME NEW i \in 1..Len(c) PROVE SegmentNo(c, i) = k + s <=> m + x <= i /\ i <= m + y
      <4>1. CASE i \in 1..m /\ i \in 0..m
        <5>1. SegmentNo(c, i) <= SegmentNo(c, m)
          BY <4>1, SegmentNoGrows
        <5>2. SegmentNo(c, i) \in Nat
          BY <4>1, SegmentNoStep
        <5> QED BY <1>6, <2>2, <4>1, <5>1, <5>2
      <4>2. CASE \E j \in 1..n : i = m + j /\ j \in 0..n
        <5>1. PICK j \in 1..n : i = m + j /\ j \in 0..n
          BY <4>2
        <5>2. SegmentNo(c, i) = k + SegmentNo(b, j) /\ SegmentNo(b, j) \in Nat
          BY <1>7, <1>8, <5>1
        <5>3. SegmentNo(b, j) = s <=> x <= j /\ j <= y
          BY <2>2
        <5>4. PICK t \in Nat : t = SegmentNo(b, j)
          BY <5>2
        <5>5. k + t = k + s <=> t = s
          OBVIOUS
        <5>6. (m + x <= m + j <=> x <= j) /\ (m + j <= m + y <=> j <= y)
          OBVIOUS
        <5> QED BY <5>1, <5>2, <5>3, <5>4, <5>5, <5>6, Zenon
      <4> QED BY <1>9, <4>1, <4>2
    <3> QED BY <2>2, <3>1, <3>2 DEF IsSegment
  <2>5. m + x \in Nat /\ m + y \in Nat
    OBVIOUS
  <2>6. Segments(b)[s] = SubSeq(b, x + 1, y) /\ Segments(c)[k + s] = SubSeq(c, (m + x) + 1, m + y)
    BY <2>1, <2>3, <2>4, <2>5, SegmentIs
  <2>7. SubSeq(b, x + 1, y) = SubSeq(c, (x + 1) + m, y + m)
    <3>1. \A i \in (x + 1)..y : b[i] \in Char /\ c[i + m] = b[i]
      <4> SUFFICES ASSUME NEW i \in (x + 1)..y PROVE b[i] \in Char /\ c[i + m] = b[i]
        OBVIOUS
      <4>1. i \in 1..n /\ i + m = m + i
        BY <2>2
      <4> QED BY <1>3, <4>1
    <3>2. x + 1 \in Int /\ y \in Int /\ m \in Int
      OBVIOUS
    <3> QED BY <3>1, <3>2, SubSeqSame
  <2>8. (x + 1) + m = (m + x) + 1 /\ y + m = m + y
    OBVIOUS
  <2> QED BY <2>6, <2>7, <2>8, Zenon
<1>t. PICK T : T = Seq(Char)
  OBVIOUS
<1>13. PICK A \in Seq(T), B \in Seq(T), C \in Seq(T) :
          /\ A = Segments(a) /\ B = Segments(b) /\ C = Segments(c)
          /\ Len(A) = k /\ Len(B) = l /\ Len(C) = k + l
  BY <1>2, <1>5, <1>10, <1>t, SegmentsType
<1>14. PICK D \in Seq(T) : D = A \o B
  BY ConcatProperties, Zenon
<1>15. Len(D) = k + l /\ (\A i \in 1..k : D[i] = A[i]) /\ \A i \in 1..l : D[k + i] = B[i]
  <2>1. /\ Len(D) = Len(A) + Len(B) /\ \A i \in 1..Len(A) : D[i] = A[i]
        /\ \A i \in 1..Len(B) : D[Len(A) + i] = B[i]
    BY <1>14, ConcatAt
  <2> QED BY <1>13, <2>1, Zenon
<1>16. ASSUME NEW i \in 1..(k + l) PROVE C[i] = D[i]
  <2>1. CASE i <= k
    <3>1. i \in 1..k
      BY <2>1
    <3> QED BY <3>1, <1>11, <1>13, <1>15, Zenon
  <2>2. CASE ~(i <= k)
    <3>1. PICK j \in 1..l : i = k + j
      <4>1. i - k \in 1..l /\ i = k + (i - k)
        BY <2>2
      <4> QED BY <4>1
    <3> QED BY <3>1, <1>12, <1>13, <1>15, Zenon
  <2> QED BY <2>1, <2>2
<1>17. C = D
  BY <1>13, <1>15, <1>16, SeqEqual, Zenon
<1> QED
  BY <1>1, <1>13, <1>14, <1>17, Zenon

\* The places after the first m, up to the n-th.
LEMMA SubSeqPart ==
  ASSUME NEW S, NEW p \in Seq(S), NEW m \in Nat, NEW n \in Nat, m <= n, n <= Len(p)
  PROVE  /\ SubSeq(p, m + 1, n) \in Seq(S) /\ Len(SubSeq(p, m + 1, n)) = n - m
         /\ \A i \in 1..(n - m) : SubSeq(p, m + 1, n)[i] = p[m + i]
<1>1. m + 1 \in Int /\ n \in Int /\ Len(p) \in Nat
  BY LenProperties
<1>2. \A i \in (m + 1)..n : i \in 1..Len(p)
  BY <1>1
<1>3. \A i \in (m + 1)..n : p[i] \in S
  BY <1>2, ElementOfSeq, Zenon
<1>4. SubSeq(p, m + 1, n) \in Seq(S)
  BY <1>1, <1>3, SubSeqProperties, Zenon
<1>5. Len(SubSeq(p, m + 1, n)) = IF m + 1 <= n THEN n - (m + 1) + 1 ELSE 0
  BY <1>1, <1>3, SubSeqProperties
<1>6. \A i \in 1..(n - (m + 1) + 1) : SubSeq(p, m + 1, n)[i] = p[(m + 1) + i - 1]
  BY <1>1, <1>3, SubSeqProperties
<1>7. n - (m + 1) + 1 = n - m /\ \A i \in 1..(n - m) : (m + 1) + i - 1 = m + i
  OBVIOUS
<1>8. Len(SubSeq(p, m + 1, n)) = n - m
  <2>1. PICK l : l = Len(SubSeq(p, m + 1, n))
    OBVIOUS
  <2>2. l = IF m + 1 <= n THEN n - (m + 1) + 1 ELSE 0
    BY <1>5, <2>1, Zenon
  <2>3. l = n - m
    BY <2>2
  <2> QED BY <2>1, <2>3, Zenon
<1>9. ASSUME NEW i \in 1..(n - m) PROVE SubSeq(p, m + 1, n)[i] = p[m + i]
  BY <1>6, <1>7, Zenon
<1> QED
  BY <1>4, <1>8, <1>9, Zenon

\* In a run of slashes every slash starts a segment, and all of them are empty.
LEMMA SlashSegments ==
  ASSUME NEW u \in Seq(Char), \A i \in 1..Len(u) : u[i] = "/"
  PROVE  /\ SegmentNo(u, Len(u)) = Len(u)
         /\ \A k \in 1..Len(u) : Segments(u)[k] = <<>>
<1>1. PICK n \in Nat : n = Len(u)
  BY LenProperties
<1>2. \A i \in 1..n : u[i] = "/"
  BY <1>1
<1> DEFINE Fails == {i \in 0..n : SegmentNo(u, i) # i}
<1>3. Fails = {}
  <2> SUFFICES ASSUME Fails # {} PROVE FALSE
    OBVIOUS
  <2>1. PICK i \in Fails : \A j \in Fails : i <= j
    <3>1. Fails \subseteq Nat
      OBVIOUS
    <3> QED BY <3>1, LeastNatural, Zenon
  <2>2. i # 0
    BY SegmentNoStep
  <2>3. PICK w \in Nat : i = w + 1 /\ w \in 0..n /\ i \in 1..n
    <3>1. i - 1 \in Nat /\ i = (i - 1) + 1 /\ i - 1 \in 0..n /\ i \in 1..n
      BY <2>2
    <3> QED BY <3>1
  <2>4. SegmentNo(u, w) = w
    <3>1. w \notin Fails
      <4> HIDE DEF Fails
      <4> QED BY <2>1, <2>3
    <3> QED BY <3>1, <2>3
  <2>5. SegmentNo(u, w + 1) = SegmentNo(u, w) + 1
    BY <1>2, <2>3, SegmentNoStep
  <2> QED BY <2>3, <2>4, <2>5
<1>4. \A i \in 0..n : SegmentNo(u, i) = i
  BY <1>3
<1> HIDE DEF Fails
<1>5. SegmentNo(u, n) = n
  BY <1>4
<1>6. ASSUME NEW k \in 1..n PROVE Segments(u)[k] = <<>>
  <2>1. IsSegment(u, k, k, k)
    BY <1>1, <1>2, <1>4 DEF IsSegment
  <2>2. k \in Nat /\ k \in 1..SegmentNo(u, Len(u))
    BY <1>1, <1>5
  <2>3. Segments(u)[k] = SubSeq(u, k + 1, k)
    BY <2>1, <2>2, SegmentIs
  <2>4. SubSeq(u, k + 1, k) = <<>>
    BY <2>2, SubSeqEmpty
  <2> QED BY <2>3, <2>4, Zenon
<1> QED
  BY <1>1, <1>5, <1>6, Zenon

\* The last segment of a path that starts with a slash and does not end in one
\* is not empty.
LEMMA LastSegment ==
  ASSUME NEW p \in Seq(Char), p # <<>>, p[1] = "/", p[Len(p)] # "/"
  PROVE  /\ SegmentNo(p, Len(p)) \in Nat /\ SegmentNo(p, Len(p)) >= 1
         /\ Segments(p)[SegmentNo(p, Len(p))] # <<>>
<1>1. PICK n \in Nat : n = Len(p) /\ n >= 1
  BY EmptySeq, LenProperties
<1>2. PICK k \in Nat : k = SegmentNo(p, n)
  BY SegmentNoStep
<1>3. k >= 1
  <2>1. n \in 1..n
    BY <1>1
  <2> QED BY <1>2, <2>1, SegmentNoFirst
<1>4. PICK x \in Nat, y \in Nat : IsSegment(p, k, x, y)
  <2>1. k \in 1..SegmentNo(p, Len(p))
    BY <1>1, <1>2, <1>3
  <2> QED BY <2>1, SegmentPlaces, Zenon
<1>5. x \in 1..n /\ p[x] = "/" /\ y = n
  <2>1. x \in 1..n /\ y \in 1..n /\ p[x] = "/" /\ (SegmentNo(p, n) = k <=> x <= n /\ n <= y)
    BY <1>1, <1>4 DEF IsSegment
  <2> QED BY <1>2, <2>1
<1>6. x < n
  BY <1>1, <1>5
<1>7. Segments(p)[k] = SubSeq(p, x + 1, n)
  BY <1>1, <1>2, <1>3, <1>4, <1>5, SegmentIs
<1>8. Len(SubSeq(p, x + 1, n)) = n - x
  BY <1>1, <1>6, SubSeqPart
<1>9. SubSeq(p, x + 1, n) # <<>>
  BY <1>6, <1>8, EmptySeq
<1> QED
  BY <1>1, <1>2, <1>3, <1>7, <1>9

\* TrimRight cuts a run of slashes off the end.
LEMMA TrimmedPath ==
  ASSUME NEW p \in Seq(Char)
  PROVE  \E t \in Seq(Char), u \in Seq(Char) :
           /\ t = TrimRight(p) /\ p = t \o u
           /\ \A i \in 1..Len(u) : u[i] = "/"
           /\ t # <<>> => t[Len(t)] # "/" /\ t[1] = p[1]
<1>1. PICK n \in Nat : n = Len(p)
  BY LenProperties
<1> DEFINE T == {0} \cup {i \in DOMAIN p : p[i] # "/"}
<1>2. DOMAIN p = 1..n
  BY <1>1, LenProperties
<1>3. T \subseteq 0..n /\ 0 \in T
  BY <1>2
<1>4. PICK e \in T : \A i \in T : e >= i
  BY <1>3, GreatestNatural, Zenon
<1>5. e \in Nat /\ e <= n /\ (e # 0 => e \in 1..n /\ p[e] # "/") /\ \A i \in (e + 1)..n : p[i] = "/"
  <2>1. e \in Nat /\ e <= n /\ (e # 0 => e \in 1..n /\ p[e] # "/")
    BY <1>2
  <2>2. ASSUME NEW i \in (e + 1)..n PROVE p[i] = "/"
    <3>1. i \in 1..n /\ ~(e >= i)
      BY <2>1
    <3>2. i \notin T
      <4> HIDE DEF T
      <4> QED BY <1>4, <3>1
    <3> QED BY <1>2, <3>1, <3>2
  <2> QED BY <2>1, <2>2
<1>6. TrimRight(p) = SubSeq(p, 1, e)
  <2>1. T \subseteq Nat /\ \A z \in T : 0 <= z /\ z <= e
    BY <1>3, <1>4, <1>5
  <2>2. Max(T) = e
    BY <1>3, <2>1, MinMaxOf, Zenon
  <2> QED BY <2>2, Zenon DEF TrimRight
<1> HIDE DEF T
<1>8. PICK t \in Seq(Char) : t = SubSeq(p, 1, e) /\ Len(t) = e /\ \A i \in 1..e : t[i] = p[i]
  <2>1. 0 \in Nat /\ e \in Nat /\ 0 <= e /\ e <= Len(p)
    BY <1>1, <1>5
  <2>2. /\ SubSeq(p, 0 + 1, e) \in Seq(Char) /\ Len(SubSeq(p, 0 + 1, e)) = e - 0
        /\ \A i \in 1..(e - 0) : SubSeq(p, 0 + 1, e)[i] = p[0 + i]
    BY <2>1, SubSeqPart
  <2>3. 0 + 1 = 1 /\ e - 0 = e /\ \A i \in 1..e : 0 + i = i
    BY <1>5
  <2> QED BY <2>2, <2>3, Zenon
<1>9. PICK u \in Seq(Char) : /\ u = SubSeq(p, e + 1, n) /\ Len(u) = n - e
                             /\ \A i \in 1..(n - e) : u[i] = p[e + i]
  <2>1. e \in Nat /\ n \in Nat /\ e <= n /\ n <= Len(p)
    BY <1>1, <1>5
  <2>2. /\ SubSeq(p, e + 1, n) \in Seq(Char) /\ Len(SubSeq(p, e + 1, n)) = n - e
        /\ \A i \in 1..(n - e) : SubSeq(p, e + 1, n)[i] = p[e + i]
    BY <2>1, SubSeqPart
  <2> QED BY <2>2, Zenon
<1>10. \A i \in 1..Len(u) : u[i] = "/"
  BY <1>5, <1>9
<1>11. t # <<>> => t[Len(t)] # "/" /\ t[1] = p[1]
  BY <1>5, <1>8, EmptySeq
<1>12. p = t \o u
  <2>1. 1 \in 1..(n + 1) /\ e \in (1 - 1)..n /\ n \in e..n
    BY <1>5
  <2>2. SubSeq(p, 1, e) \o SubSeq(p, e + 1, n) = SubSeq(p, 1, n)
    BY <1>1, <2>1, ConcatAdjacentSubSeq, Zenon
  <2>3. SubSeq(p, 1, n) = p
    BY <1>1, SubSeqFull, Zenon
  <2> QED BY <1>8, <1>9, <2>2, <2>3, Zenon
<1> QED
  BY <1>6, <1>8, <1>10, <1>11, <1>12, Zenon

\* The segments of a trimmed path are those up to the last that is not empty.
LEMMA TrimmedSegments ==
  ASSUME NEW p \in Seq(Char), p = <<>> \/ p[1] = "/"
  PROVE  Segments(TrimRight(p)) =
           SubSeq(Segments(p), 1, Max({0} \cup {i \in DOMAIN Segments(p) : Segments(p)[i] # <<>>}))
<1>1. PICK t \in Seq(Char), u \in Seq(Char) :
         /\ t = TrimRight(p) /\ p = t \o u
         /\ \A i \in 1..Len(u) : u[i] = "/"
         /\ t # <<>> => t[Len(t)] # "/" /\ t[1] = p[1]
  BY TrimmedPath
<1>2. PICK l \in Nat : l = Len(u)
  BY LenProperties
<1>3. u = <<>> \/ u[1] = "/"
  BY <1>1, <1>2, EmptySeq
<1>4. SegmentNo(u, Len(u)) = l /\ \A k \in 1..l : Segments(u)[k] = <<>>
  BY <1>1, <1>2, SlashSegments
<1>t. PICK X : X = Seq(Char)
  OBVIOUS
<1>5. PICK A \in Seq(X), B \in Seq(X), C \in Seq(X) :
         /\ A = Segments(t) /\ B = Segments(u) /\ C = Segments(p)
         /\ Len(A) = SegmentNo(t, Len(t)) /\ Len(B) = l
  BY <1>4, <1>t, SegmentsType
<1>6. C = A \o B
  BY <1>1, <1>3, <1>5, SegmentsConcat, Zenon
<1>7. PICK k \in Nat : k = Len(A)
  BY LenProperties
<1>8. /\ Len(C) = k + l /\ DOMAIN C = 1..(k + l)
      /\ (\A i \in 1..k : C[i] = A[i]) /\ (\A i \in 1..l : C[k + i] = B[i])
  <2>1. /\ Len(C) = Len(A) + Len(B)
        /\ (\A i \in 1..Len(A) : C[i] = A[i]) /\ (\A i \in 1..Len(B) : C[Len(A) + i] = B[i])
    BY <1>6, ConcatAt
  <2>2. DOMAIN C = 1..Len(C)
    BY LenProperties
  <2> QED BY <1>5, <1>7, <2>1, <2>2, Zenon
<1> DEFINE T == {0} \cup {i \in DOMAIN C : C[i] # <<>>}
<1>9. T \subseteq 0..k
  <2> SUFFICES ASSUME NEW i \in 1..(k + l), C[i] # <<>> PROVE i \in 0..k
    BY <1>8
  <2> SUFFICES ASSUME ~(i <= k) PROVE FALSE
    OBVIOUS
  <2>1. PICK j \in 1..l : i = k + j
    <3>1. i - k \in 1..l /\ i = k + (i - k)
      OBVIOUS
    <3> QED BY <3>1
  <2> QED BY <1>4, <1>5, <1>8, <2>1, Zenon
<1>10. k \in T
  <2>1. CASE t = <<>>
    <3>1. k = 0
      BY <1>5, <1>7, <2>1, EmptySeq, SegmentNoStep
    <3> QED BY <3>1
  <2>2. CASE t # <<>>
    <3>1. t[1] = "/"
      <4>1. p # <<>>
        BY <1>1, <2>2, ConcatEqualIffEmpty
      <4> QED BY <1>1, <2>2, <4>1
    <3>2. k >= 1 /\ A[k] # <<>>
      BY <1>1, <1>5, <1>7, <2>2, <3>1, LastSegment
    <3> QED BY <1>8, <3>2
  <2> QED BY <2>1, <2>2
<1>11. Max(T) = k
  <2>1. T \subseteq Nat /\ 0 \in T /\ \A z \in T : 0 <= z /\ z <= k
    BY <1>9
  <2> QED BY <1>10, <2>1, MinMaxOf, Zenon
<1>12. SubSeq(C, 1, k) = A
  <2>1. /\ SubSeq(C, 0 + 1, k) \in Seq(X) /\ Len(SubSeq(C, 0 + 1, k)) = k - 0
        /\ \A i \in 1..(k - 0) : SubSeq(C, 0 + 1, k)[i] = C[0 + i]
    <3>1. 0 <= k /\ k <= Len(C) /\ 0 \in Nat
      BY <1>8
    <3> QED BY <3>1, SubSeqPart
  <2>2. 0 + 1 = 1 /\ k - 0 = k /\ \A i \in 1..k : 0 + i = i
    OBVIOUS
  <2>3. /\ SubSeq(C, 1, k) \in Seq(X) /\ Len(SubSeq(C, 1, k)) = k
        /\ \A i \in 1..k : SubSeq(C, 1, k)[i] = C[i]
    BY <2>1, <2>2, Zenon
  <2>4. \A i \in 1..k : SubSeq(C, 1, k)[i] = A[i]
    BY <1>8, <2>3, Zenon
  <2> QED BY <1>7, <2>3, <2>4, SeqEqual, Zenon
<1> QED
  BY <1>1, <1>5, <1>11, <1>12, Zenon

\* The path "/" has one segment, and it is empty.
LEMMA RootSegments ==
  Segments(<<"/">>) = << <<>> >>
<1>1. PICK u \in Seq(Char) : u = <<"/">> /\ Len(u) = 1 /\ u[1] = "/"
  BY OneCharacter DEF Char
<1>2. \A i \in 1..Len(u) : u[i] = "/"
  BY <1>1
<1>3. SegmentNo(u, Len(u)) = 1 /\ Segments(u)[1] = <<>>
  <2>1. SegmentNo(u, Len(u)) = Len(u) /\ \A k \in 1..Len(u) : Segments(u)[k] = <<>>
    BY <1>2, SlashSegments, Zenon
  <2> QED BY <1>1, <2>1
<1>t. PICK X : X = Seq(Char) /\ <<>> \in X
  BY EmptySeq
<1>4. PICK A \in Seq(X) : A = Segments(u) /\ Len(A) = 1 /\ A[1] = <<>>
  BY <1>3, <1>t, SegmentsType
<1>5. PICK z \in X : z = <<>>
  BY <1>t
<1>6. <<z>> \in Seq(X) /\ Len(<<z>>) = 1 /\ <<z>>[1] = z
  OBVIOUS
<1>7. A = <<z>>
  <2>1. Len(A) = Len(<<z>>) /\ \A i \in 1..Len(A) : A[i] = <<z>>[i]
    BY <1>4, <1>5, <1>6
  <2> QED BY <1>6, <2>1, SeqEqual, Zenon
<1> QED
  BY <1>1, <1>4, <1>5, <1>7, Zenon

\* What is left of a path behind a prefix is the segments behind the prefix's.
LEMMA SegmentsRest ==
  ASSUME NEW f \in Seq(Char), NEW t \in Seq(Char), t # <<>>, t[1] = "/"
  PROVE  LET public == Segments(f \o t)
             prefix == Segments(f)
         IN  /\ IsPrefix(prefix, public) /\ public # prefix
             /\ SubSeq(public, Len(prefix) + 1, Len(public)) = Segments(t)
<1>t. PICK X : X = Seq(Char)
  OBVIOUS
<1>1. PICK A \in Seq(X), B \in Seq(X) :
         A = Segments(f) /\ B = Segments(t) /\ Len(B) = SegmentNo(t, Len(t))
  BY <1>t, SegmentsType
<1>2. PICK C \in Seq(X) : C = A \o B
  BY ConcatProperties, Zenon
<1>3. C = Segments(f \o t)
  BY <1>1, <1>2, SegmentsConcat, Zenon
<1>4. PICK k \in Nat, l \in Nat : k = Len(A) /\ l = Len(B)
  BY LenProperties
<1>5. /\ Len(C) = k + l
      /\ (\A i \in 1..k : C[i] = A[i]) /\ (\A i \in 1..l : C[k + i] = B[i])
  <2>1. /\ Len(C) = Len(A) + Len(B)
        /\ (\A i \in 1..Len(A) : C[i] = A[i]) /\ (\A i \in 1..Len(B) : C[Len(A) + i] = B[i])
    BY <1>2, ConcatAt
  <2> QED BY <1>4, <2>1, Zenon
<1>6. l >= 1
  <2>1. PICK n \in Nat : n = Len(t) /\ n >= 1
    BY EmptySeq, LenProperties
  <2>2. n \in 1..n
    BY <2>1
  <2>3. SegmentNo(t, n) >= 1
    BY <2>2, SegmentNoFirst, Zenon
  <2> QED BY <1>1, <1>4, <2>1, <2>3, Zenon
<1>7. C # A
  BY <1>4, <1>5, <1>6
<1>8. SubSeq(C, 1, k) = SubSeq(A, 1, k)
  <2>1. \A i \in 1..k : A[i] \in X /\ C[i + 0] = A[i]
    BY <1>4, <1>5, ElementOfSeq
  <2>2. SubSeq(A, 1, k) = SubSeq(C, 1 + 0, k + 0)
    BY <2>1, SubSeqSame
  <2>3. 1 + 0 = 1 /\ k + 0 = k
    OBVIOUS
  <2> QED BY <2>2, <2>3, Zenon
<1>9. IsPrefix(A, C)
  <2>1. Len(A) <= Len(C)
    BY <1>4, <1>5
  <2> QED BY <1>4, <1>8, <2>1, Zenon DEF IsPrefix
<1>10. SubSeq(C, k + 1, k + l) = B
  <2>1. \A i \in 1..l : B[i] \in X /\ C[i + k] = B[i]
    <3> SUFFICES ASSUME NEW i \in 1..l PROVE B[i] \in X /\ C[i + k] = B[i]
      OBVIOUS
    <3>1. i + k = k + i
      OBVIOUS
    <3>2. B[i] \in X
      BY <1>4, ElementOfSeq, Zenon
    <3> QED BY <1>5, <3>1, <3>2, Zenon
  <2>2. SubSeq(B, 1, l) = SubSeq(C, 1 + k, l + k)
    BY <2>1, SubSeqSame
  <2>3. 1 + k = k + 1 /\ l + k = k + l
    OBVIOUS
  <2>4. SubSeq(B, 1, l) = B
    BY <1>4, SubSeqFull, Zenon
  <2> QED BY <2>2, <2>3, <2>4, Zenon
<1> QED
  BY <1>1, <1>3, <1>4, <1>5, <1>7, <1>9, <1>10, Zenon

-----------------------------------------------------------------------------
(* targetURL.                                                              *)

\* targetURL undoes withQuery where the path has no "?" and no "%".
LEMMA TargetOfQuery ==
  ASSUME NEW base, NEW path \in Seq(Char), NEW query \in Seq(Char),
         ~Contains(path, "?"), ~Contains(path, "%")
  PROVE  /\ TargetURL(base, WithQuery(path, query)).path = TrimRight(base) \o path
         /\ TargetURL(base, WithQuery(path, query)).query = query
<1>1. PICK n \in Nat : n = Len(path)
  BY LenProperties
<1>2. \A i \in 1..n : path[i] # "?"
  BY <1>1 DEF Contains
<1> DEFINE I(s) == {i \in 1..Len(s) : s[i] = "?"}
           cut(s) == IF I(s) # {} THEN Min(I(s)) ELSE Len(s) + 1
<1>3. ASSUME NEW s \in Seq(Char)
      PROVE  TargetURL(base, s) = [path  |-> TrimRight(base) \o Unescape(SubSeq(s, 1, cut(s) - 1)),
                                   query |-> SubSeq(s, cut(s) + 1, Len(s))]
  <2>1. SelectInSeq(s, LAMBDA c : c = "?") = IF I(s) # {} THEN Min(I(s)) ELSE 0
    BY Zenon DEF SelectInSeq
  <2>2. I(s) # {} => Min(I(s)) # 0
    <3> SUFFICES ASSUME I(s) # {} PROVE Min(I(s)) # 0
      OBVIOUS
    <3>1. I(s) \subseteq Nat
      BY LenProperties
    <3>2. \E x \in I(s) : \A y \in I(s) : x <= y
      BY <3>1, LeastNatural, Zenon
    <3>3. Min(I(s)) \in I(s)
      BY <3>2, Zenon DEF Min
    <3> QED BY <3>3
  <2>3. cut(s) = IF SelectInSeq(s, LAMBDA c : c = "?") = 0 THEN Len(s) + 1
                 ELSE SelectInSeq(s, LAMBDA c : c = "?")
    <3>1. CASE I(s) # {}
      BY <2>1, <2>2, <3>1
    <3>2. CASE I(s) = {}
      BY <2>1, <3>2
    <3> QED BY <3>1, <3>2
  <2>4. cut(s) = Cut(s)
    BY <2>3, Zenon DEF Cut
  <2> QED BY <2>4, Zenon DEF TargetURL, PathPart
<1>u. Unescape(path) = path
  BY Zenon DEF Unescape
<1>4. CASE query = <<>>
  <2>1. WithQuery(path, query) = path
    BY <1>4, Zenon DEF WithQuery
  <2>2. I(path) = {}
    BY <1>1, <1>2
  <2>3. cut(path) = n + 1
    BY <1>1, <2>2, Zenon
  <2>4. /\ TargetURL(base, path).path = TrimRight(base) \o Unescape(SubSeq(path, 1, (n + 1) - 1))
        /\ TargetURL(base, path).query = SubSeq(path, (n + 1) + 1, n)
    <3> HIDE DEF cut
    <3>1. TargetURL(base, path) = [path  |-> TrimRight(base) \o Unescape(SubSeq(path, 1, (n + 1) - 1)),
                                   query |-> SubSeq(path, (n + 1) + 1, n)]
      BY <1>1, <1>3, <2>3, Zenon
    <3> QED BY <3>1
  <2>5. (n + 1) - 1 = n /\ SubSeq(path, 1, n) = path
    BY <1>1, SubSeqFull
  <2>6. SubSeq(path, (n + 1) + 1, n) = <<>>
    BY SubSeqEmpty
  <2> QED BY <1>4, <1>u, <2>1, <2>4, <2>5, <2>6, Zenon
<1>5. CASE query # <<>>
  <2>1. PICK mark \in Seq(Char) : mark = <<"?">> /\ Len(mark) = 1 /\ mark[1] = "?"
    BY OneCharacter DEF Char
  <2>2. PICK h \in Seq(Char) :
           /\ h = path \o mark /\ Len(h) = n + 1 /\ h[n + 1] = "?"
           /\ \A i \in 1..n : h[i] = path[i]
    <3>1. /\ path \o mark \in Seq(Char) /\ Len(path \o mark) = Len(path) + Len(mark)
          /\ \A i \in 1..Len(path) : (path \o mark)[i] = path[i]
          /\ \A i \in 1..Len(mark) : (path \o mark)[Len(path) + i] = mark[i]
      BY ConcatAt
    <3>2. (path \o mark)[n + 1] = "?"
      BY <1>1, <2>1, <3>1
    <3> QED BY <1>1, <2>1, <3>1, <3>2, Zenon
  <2>3. PICK m \in Nat : m = Len(query)
    BY LenProperties
  <2>4. PICK s \in Seq(Char) :
           /\ s = h \o query /\ Len(s) = (n + 1) + m
           /\ \A i \in 1..(n + 1) : s[i] = h[i]
           /\ \A i \in 1..m : s[(n + 1) + i] = query[i]
    <3>1. /\ h \o query \in Seq(Char) /\ Len(h \o query) = Len(h) + Len(query)
          /\ \A i \in 1..Len(h) : (h \o query)[i] = h[i]
          /\ \A i \in 1..Len(query) : (h \o query)[Len(h) + i] = query[i]
      BY ConcatAt
    <3>2. Len(h) = n + 1
      BY <2>2
    <3>3. Len(h \o query) = (n + 1) + m
      BY <2>3, <3>1, <3>2, Zenon
    <3>4. \A i \in 1..(n + 1) : (h \o query)[i] = h[i]
      BY <3>1, <3>2, Zenon
    <3>5. \A i \in 1..m : (h \o query)[(n + 1) + i] = query[i]
      BY <2>3, <3>1, <3>2, Zenon
    <3> QED BY <3>1, <3>3, <3>4, <3>5, Zenon
  <2>5. WithQuery(path, query) = s
    BY <1>5, <2>1, <2>2, <2>4, Zenon DEF WithQuery
  <2>6. Min(I(s)) = n + 1 /\ I(s) # {}
    <3>1. I(s) \subseteq 0..Len(s) /\ n + 1 \in I(s) /\ Len(s) \in Nat
      BY <2>2, <2>4
    <3>2. PICK y \in I(s) : \A z \in I(s) : y >= z
      BY <3>1, GreatestNatural, Zenon
    <3>3. ASSUME NEW z \in I(s) PROVE n + 1 <= z
      <4> SUFFICES ASSUME ~(n + 1 <= z) PROVE FALSE
        OBVIOUS
      <4>1. z \in 1..n /\ z \in 1..(n + 1) /\ s[z] = "?"
        BY <2>4
      <4> QED BY <1>2, <2>2, <2>4, <4>1
    <3>4. I(s) \subseteq Nat /\ \A z \in I(s) : n + 1 <= z /\ z <= y
      BY <3>1, <3>2, <3>3
    <3> HIDE DEF I
    <3>5. Min(I(s)) = n + 1
      BY <3>1, <3>2, <3>4, MinMaxOf, Zenon
    <3> QED BY <3>1, <3>5
  <2>7. cut(s) = n + 1
    BY <2>6, Zenon
  <2>8. /\ TargetURL(base, s).path = TrimRight(base) \o Unescape(SubSeq(s, 1, (n + 1) - 1))
        /\ TargetURL(base, s).query = SubSeq(s, (n + 1) + 1, (n + 1) + m)
    <3> HIDE DEF cut
    <3>1. TargetURL(base, s) = [path  |-> TrimRight(base) \o Unescape(SubSeq(s, 1, (n + 1) - 1)),
                                query |-> SubSeq(s, (n + 1) + 1, (n + 1) + m)]
      BY <1>3, <2>4, <2>7, Zenon
    <3> QED BY <3>1
  <2>9. SubSeq(s, 1, n) = path
    <3>1. \A i \in 1..n : path[i] \in Char /\ s[i + 0] = path[i]
      BY <1>1, <2>2, <2>4, ElementOfSeq
    <3>2. SubSeq(path, 1, n) = SubSeq(s, 1 + 0, n + 0)
      <4>1. 1 \in Int /\ n \in Int /\ 0 \in Int
        OBVIOUS
      <4> QED BY <3>1, <4>1, SubSeqSame
    <3>3. SubSeq(path, 1, n) = path
      BY <1>1, SubSeqFull, Zenon
    <3>4. 1 + 0 = 1 /\ n + 0 = n
      OBVIOUS
    <3> QED BY <3>2, <3>3, <3>4, Zenon
  <2>10. SubSeq(s, (n + 1) + 1, (n + 1) + m) = query
    <3>1. \A i \in 1..m : query[i] \in Char /\ s[i + (n + 1)] = query[i]
      <4> SUFFICES ASSUME NEW i \in 1..m PROVE query[i] \in Char /\ s[i + (n + 1)] = query[i]
        OBVIOUS
      <4>1. i + (n + 1) = (n + 1) + i
        OBVIOUS
      <4>2. query[i] \in Char
        BY <2>3, ElementOfSeq, Zenon
      <4> QED BY <2>4, <4>1, <4>2, Zenon
    <3>2. SubSeq(query, 1, m) = SubSeq(s, 1 + (n + 1), m + (n + 1))
      BY <3>1, SubSeqSame
    <3>3. SubSeq(query, 1, m) = query
      BY <2>3, SubSeqFull, Zenon
    <3>4. 1 + (n + 1) = (n + 1) + 1 /\ m + (n + 1) = (n + 1) + m
      OBVIOUS
    <3> QED BY <3>2, <3>3, <3>4, Zenon
  <2>11. (n + 1) - 1 = n
    OBVIOUS
  <2> QED BY <1>u, <2>5, <2>8, <2>9, <2>10, <2>11, Zenon
<1> QED
  BY <1>4, <1>5

\* What matchRoute passes on of a path that a prefix matches and that has no "?" and
\* no "%", where the envelope takes it: the segments behind the prefix's, or none.
LEMMA SuffixSegments ==
  ASSUME NEW r \in Route, NEW q \in Request, Matches(r, q), q.path # r.exact,
         Head(Suffix(r, q)) = "/", ~Contains(q.path, "?"), ~Contains(q.path, "%")
  PROVE  \E s \in Seq(Char) :
           /\ Suffix(r, q) = WithQuery(s, q.query)
           /\ s # <<>> /\ s[1] = "/" /\ ~Contains(s, "?") /\ ~Contains(s, "%")
           /\ IsPrefix(Segments(r.prefix), Segments(q.path))
           /\ Segments(s) =
                IF Segments(q.path) = Segments(r.prefix) THEN << <<>> >>
                ELSE SubSeq(Segments(q.path), Len(Segments(r.prefix)) + 1, Len(Segments(q.path)))
<1>1. PICK p \in Seq(Char), f \in Seq(Char), e \in Seq(Char), query \in Seq(Char) :
         p = q.path /\ f = r.prefix /\ e = r.exact /\ query = q.query
  <2>1. q.path \in Path /\ q.query \in Path /\ r.prefix \in Path /\ r.exact \in Path
    BY DEF Route, Request
  <2>2. q.path \in Seq(Char) /\ q.query \in Seq(Char) /\ r.prefix \in Seq(Char) /\ r.exact \in Seq(Char)
    BY <2>1, PathChars
  <2> QED BY <2>2, Zenon
<1>2. PICK m \in Nat, n \in Nat : m = Len(f) /\ n = Len(p)
  BY LenProperties
<1> DEFINE rest == SubSeq(p, m + 1, n)
<1>3. p # e /\ f # <<>> /\ PathHasPrefix(p, f)
  BY <1>1, Zenon DEF Matches
<1>4. /\ rest = <<>> => Suffix(r, q) = WithQuery(<<"/">>, query)
      /\ rest # <<>> => Suffix(r, q) = WithQuery(rest, query)
  BY <1>1, <1>2, <1>3, Zenon DEF Suffix
<1>5. PICK root \in Seq(Char) :
         root = <<"/">> /\ root # <<>> /\ root[1] = "/"
         /\ ~Contains(root, "?") /\ ~Contains(root, "%")
  <2>1. <<"/">> \in Seq(Char) /\ <<"/">> # <<>> /\ <<"/">>[1] = "/" /\ Len(<<"/">>) = 1
    BY OneCharacter DEF Char
  <2>2. ~Contains(<<"/">>, "?") /\ ~Contains(<<"/">>, "%")
    BY <2>1 DEF Contains
  <2> QED BY <2>1, <2>2, Zenon
<1>6. Segments(root) = << <<>> >>
  BY <1>5, RootSegments, Zenon
<1>7. m >= 1 /\ m <= n
  <2>1. Len(f) <= Len(p)
    BY <1>2, <1>3 DEF PathHasPrefix, IsPrefix
  <2>2. m # 0
    BY <1>2, <1>3, EmptySeq
  <2> QED BY <1>2, <2>1, <2>2
<1>8. /\ rest \in Seq(Char) /\ Len(rest) = n - m
      /\ \A i \in 1..(n - m) : rest[i] = p[m + i]
  BY <1>2, <1>7, SubSeqPart
<1>9. p = f \o rest
  <2>1. SubSeq(p, 1, m) = f
    <3>1. CASE p = f
      BY <1>2, <3>1, SubSeqFull, Zenon
    <3>2. CASE IsPrefix(f, p)
      <4>1. SubSeq(f, 1, m) = SubSeq(p, 1, m)
        BY <1>2, <3>2, Zenon DEF IsPrefix
      <4>2. SubSeq(f, 1, m) = f
        BY <1>2, SubSeqFull, Zenon
      <4> QED BY <4>1, <4>2, Zenon
    <3> QED BY <1>3, <3>1, <3>2, Zenon DEF PathHasPrefix
  <2>2. 1 \in 1..(n + 1) /\ m \in (1 - 1)..n /\ n \in m..n
    BY <1>7
  <2>3. SubSeq(p, 1, m) \o SubSeq(p, m + 1, n) = SubSeq(p, 1, n)
    BY <1>2, <2>2, ConcatAdjacentSubSeq, Zenon
  <2>4. SubSeq(p, 1, n) = p
    BY <1>2, SubSeqFull, Zenon
  <2> QED BY <2>1, <2>3, <2>4, Zenon
<1>10. CASE rest = <<>>
  <2>1. p = f
    BY <1>9, <1>10, ConcatEmptySeq, Zenon
  <2>2. Suffix(r, q) = WithQuery(root, query)
    BY <1>4, <1>5, <1>10, Zenon
  <2>3. IsPrefix(Segments(f), Segments(f))
    <3>1. PICK A \in Seq(Seq(Char)) : A = Segments(f)
      BY SegmentsType
    <3>2. Len(A) <= Len(A)
      BY LenProperties
    <3> QED BY <3>1, <3>2, Zenon DEF IsPrefix
  <2>4. /\ IsPrefix(Segments(r.prefix), Segments(q.path))
        /\ Segments(q.path) = Segments(r.prefix)
    BY <1>1, <2>1, <2>3, Zenon
  <2> QED BY <1>1, <1>5, <1>6, <2>2, <2>4, Zenon
<1>11. CASE rest # <<>>
  <2>1. Suffix(r, q) = WithQuery(rest, query)
    BY <1>4, <1>11, Zenon
  <2> HIDE DEF rest
  <2>2. Head(rest) = "/"
    BY <1>8, <1>11, <2>1, WithQueryHead, Zenon
  <2>3. rest[1] = "/"
    BY <1>8, <1>11, <2>2
  <2>4. ASSUME NEW c, ~Contains(p, c) PROVE ~Contains(rest, c)
    <3> SUFFICES ASSUME NEW i \in 1..Len(rest), rest[i] = c PROVE Contains(p, c)
      BY <2>4, Zenon DEF Contains
    <3>1. m + i \in 1..Len(p) /\ p[m + i] = c
      BY <1>2, <1>7, <1>8
    <3> QED BY <3>1 DEF Contains
  <2>5. /\ IsPrefix(Segments(f), Segments(f \o rest)) /\ Segments(f \o rest) # Segments(f)
        /\ SubSeq(Segments(f \o rest), Len(Segments(f)) + 1, Len(Segments(f \o rest))) = Segments(rest)
    BY <1>8, <1>11, <2>3, SegmentsRest, Zenon
  <2>6. /\ IsPrefix(Segments(r.prefix), Segments(q.path)) /\ Segments(q.path) # Segments(r.prefix)
        /\ SubSeq(Segments(q.path), Len(Segments(r.prefix)) + 1, Len(Segments(q.path))) = Segments(rest)
    BY <1>1, <1>9, <2>5, Zenon
  <2>7. ~Contains(rest, "?") /\ ~Contains(rest, "%")
    BY <1>1, <2>4, Zenon
  <2>8. Suffix(r, q) = WithQuery(rest, q.query)
    BY <1>1, <2>1, Zenon
  <2> QED BY <1>8, <1>11, <2>3, <2>6, <2>7, <2>8, Zenon
<1> QED
  BY <1>10, <1>11

\* The path and the query of a call whose path and target are of one route.
LEMMA CallSegments ==
  ASSUME NEW r \in Route, NEW q \in Request, Matches(r, q), q.path # r.exact,
         Head(Suffix(r, q)) = "/", ~Contains(q.path, "?"), ~Contains(q.path, "%")
  PROVE  LET url    == TargetURL(r.target.base, Suffix(r, q))
             target == Segments(r.target.base)
             base   == SubSeq(target, 1, Max({0} \cup {i \in DOMAIN target : target[i] # <<>>}))
             public == Segments(q.path)
             prefix == Segments(r.prefix)
             rest   == IF public = prefix THEN << <<>> >>
                       ELSE SubSeq(public, Len(prefix) + 1, Len(public))
         IN  /\ IsPrefix(prefix, public)
             /\ Segments(url.path) = base \o rest
             /\ url.query = q.query
<1> DEFINE url    == TargetURL(r.target.base, Suffix(r, q))
           target == Segments(r.target.base)
           base   == SubSeq(target, 1, Max({0} \cup {i \in DOMAIN target : target[i] # <<>>}))
           rest   == IF Segments(q.path) = Segments(r.prefix) THEN << <<>> >>
                     ELSE SubSeq(Segments(q.path), Len(Segments(r.prefix)) + 1, Len(Segments(q.path)))
<1>1. PICK s \in Seq(Char) :
         /\ Suffix(r, q) = WithQuery(s, q.query)
         /\ s # <<>> /\ s[1] = "/" /\ ~Contains(s, "?") /\ ~Contains(s, "%")
         /\ IsPrefix(Segments(r.prefix), Segments(q.path))
         /\ Segments(s) = rest
  BY SuffixSegments, Zenon
<1>2. q.query \in Seq(Char)
  <2>1. q.query \in Path
    BY DEF Request
  <2> QED BY <2>1, PathChars
<1>3. PICK b \in Seq(Char) : b = r.target.base /\ (b = <<>> \/ b[1] = "/")
  <2>1. r.target \in Target
    BY DEF Route
  <2>2. r.target.base \in Path /\ (r.target.base = <<>> \/ Head(r.target.base) = "/")
    BY <2>1 DEF Target
  <2>3. PICK b \in Seq(Char) : b = r.target.base
    BY <2>2, PathChars
  <2>4. b = <<>> \/ b[1] = "/"
    BY <2>2, <2>3
  <2> QED BY <2>3, <2>4
<1>4. url.path = TrimRight(b) \o s /\ url.query = q.query
  <2>1. PICK query \in Seq(Char) : query = q.query
    BY <1>2
  <2>2. /\ TargetURL(b, WithQuery(s, query)).path = TrimRight(b) \o s
        /\ TargetURL(b, WithQuery(s, query)).query = query
    BY <1>1, TargetOfQuery
  <2>3. url = TargetURL(b, WithQuery(s, query))
    BY <1>1, <1>3, <2>1, Zenon
  <2> QED BY <2>1, <2>2, <2>3, Zenon
<1>5. Segments(TrimRight(b)) = base
  BY <1>3, TrimmedSegments, Zenon
<1>6. TrimRight(b) \in Seq(Char)
  BY TrimmedPath
<1>7. Segments(TrimRight(b) \o s) = Segments(TrimRight(b)) \o Segments(s)
  BY <1>1, <1>6, SegmentsConcat, Zenon
<1> HIDE DEF base, rest
<1>8. Segments(url.path) = base \o rest
  BY <1>1, <1>4, <1>5, <1>7, Zenon
<1> QED
  BY <1>1, <1>4, <1>8, Zenon DEF base, rest

-----------------------------------------------------------------------------
(* The connector's choice by name.                                         *)

\* RouteByName finds a route of the connector's configuration with the name
\* and, for unary messages and for no others, mode http.
LEMMA RouteByNameFound ==
  ASSUME NEW m, config.connector.routes \in Seq(Route), RouteByName(m) # None
  PROVE  \E i \in DOMAIN config.connector.routes :
           /\ RouteByName(m) = config.connector.routes[i]
           /\ config.connector.routes[i].name = m.route
           /\ config.connector.routes[i].mode = "http" <=> m.kind = "http"
<1> DEFINE routes == config.connector.routes
           found == {i \in DOMAIN routes : /\ routes[i].name = m.route
                                           /\ routes[i].mode = "http" <=> m.kind = "http"}
<1>1. found # {} /\ RouteByName(m) = routes[Max(found)]
  BY Zenon DEF RouteByName
<1>2. Len(routes) \in Nat /\ DOMAIN routes = 1..Len(routes)
  BY RouteAt
<1>3. found \subseteq 0..Len(routes)
  BY <1>2
<1>4. \E x \in found : \A y \in found : x >= y
  BY <1>1, <1>2, <1>3, GreatestNatural, Zenon
<1>5. Max(found) \in found
  BY <1>4, Zenon DEF Max
<1> QED
  BY <1>1, <1>5, Zenon

\* In a configuration that Validate accepts a name belongs to one route.
LEMMA NamesUnique ==
  ASSUME NEW c \in Config, Validate(c), NEW i \in DOMAIN c.routes, NEW j \in DOMAIN c.routes,
         c.routes[i].name = c.routes[j].name
  PROVE  i = j
<1>1. c.routes \in Seq(Route)
  BY DEF Config
<1>2. i \in Nat \ {0} /\ j \in Nat \ {0}
  BY <1>1, RouteAt
<1>3. \A a \in DOMAIN c.routes : \A b \in 1..(a - 1) : c.routes[b].name # c.routes[a].name
  BY Zenon DEF Validate
<1>4. ~(i \in 1..(j - 1)) /\ ~(j \in 1..(i - 1))
  BY <1>3
<1> QED
  BY <1>2, <1>4

-----------------------------------------------------------------------------
(* The invariant.  What the runs check speaks of one handler's variables at *)
(* a time; a step from one to the next needs to know where the earlier ones *)
(* came from.                                                              *)

\* A process that is up has accepted its configuration.
Loaded ==
  /\ config \in Deployments
  /\ edge \in {"start", "up", "exited"} /\ connector \in {"start", "up", "exited"}
  /\ edge = "up" => Validate(config.edge)
  /\ connector = "up" => Validate(config.connector)

\* The variables of a handler are set one after the other.
Staged ==
  /\ req \in Requests \cup {None}
  /\ req # None => edge = "up"
  /\ match # None => req # None
  /\ msg # None => match # None
  /\ backend # None => msg # None /\ connector = "up"
  /\ answer # None => backend # None /\ status # None
  /\ status # None => req # None
  /\ status \in Statuses \cup {None}

\* r is the edge's choice for q: its patterns are at least as long as those of
\* any route of the mode that matches.
ChosenFor(r, q) ==
  \E i \in DOMAIN config.edge.routes :
    /\ r = config.edge.routes[i]
    /\ r.mode \in {"http", "websocket"} /\ Matches(r, q)
    /\ \A j \in DOMAIN config.edge.routes :
         config.edge.routes[j].mode = r.mode /\ Matches(config.edge.routes[j], q) =>
           RouteLength(config.edge.routes[j]) <= RouteLength(r)

\* m is a message about r with the rest of q's path and with a body that r allows,
\* which is q's.
Carries(m, r, q) ==
  /\ m.route = r.name /\ m.kind = r.mode /\ m.body \in 0..MaxInt
  /\ m.path = Suffix(r, q) /\ Head(m.path) = "/"
  /\ m.kind = "http" => /\ m.body <= RequestLimit(r)
                        /\ RequestLimit(r) < MaxInt => m.body = q.body

\* b is a call of the route the connector has for m.
CallOf(b, m) ==
  /\ RouteByName(m) # None /\ RouteByName(m).mode = m.kind
  /\ b.addr = RouteByName(m).target.addr
  /\ b.path = TargetURL(RouteByName(m).target.base, m.path).path
  /\ b.query = TargetURL(RouteByName(m).target.base, m.path).query

\* What is passed on inline of an answer on route r is all of it.
AnswerWhole(a, r) ==
  /\ a.inline \in (0..MaxInt) \cup {None}
  /\ a.inline # None /\ ResponseLimit(r) < MaxInt => a.inline = a.body

\* What the edge refuses: RefusedOnly's causes, or a public_prefix that ends in "/",
\* such as "/" itself, took the slash away from the rest of the path.
RefusedCause ==
  status = "refused" =>
    \/ Contains(req.path, "#") \/ Contains(req.query, "#") \/ req.host[1] = ""
    \/ /\ match.prefix # <<>> /\ Last(match.prefix) = "/"
       /\ Len(req.path) > Len(match.prefix)

RoutingInv ==
  /\ Loaded /\ Staged
  /\ match # None => ChosenFor(match, req)
  /\ msg # None => Carries(msg, match, req)
  /\ backend # None => CallOf(backend, msg)
  /\ answer # None => AnswerWhole(answer, RouteByName(msg))
  /\ RefusedCause

-----------------------------------------------------------------------------
(* What leaves the parts of the invariant alone.                           *)

\* The configurations and requests have the types that were assumed.
LEMMA ConfigTypes ==
  ASSUME Loaded
  PROVE  /\ config.edge \in Config /\ config.connector \in Config
         /\ config.edge.routes \in Seq(Route) /\ config.connector.routes \in Seq(Route)
<1>1. config \in [edge : Config, connector : Config]
  BY DeploymentsAssumption DEF Loaded
<1>2. config.edge \in Config /\ config.connector \in Config
  BY <1>1
<1> QED
  BY <1>2 DEF Config

\* A step that leaves the configuration alone finds the same routes by name.
LEMMA RouteByNameKept ==
  ASSUME config' = config, msg' = msg
  PROVE  RouteByName(msg)' = RouteByName(msg)
BY Zenon DEF RouteByName

\* The choice stays what it is while its request is handled.
LEMMA ChosenKept ==
  ASSUME match # None => ChosenFor(match, req), config' = config, match' = match, req' = req
  PROVE  (match # None => ChosenFor(match, req))'
BY Zenon DEF ChosenFor

\* So does the message.
LEMMA CarriedKept ==
  ASSUME msg # None => Carries(msg, match, req), match' = match, req' = req, msg' = msg
  PROVE  (msg # None => Carries(msg, match, req))'
BY Zenon

\* So does the call.
LEMMA CallKept ==
  ASSUME backend # None => CallOf(backend, msg), config' = config, msg' = msg, backend' = backend
  PROVE  (backend # None => CallOf(backend, msg))'
BY RouteByNameKept, Zenon DEF CallOf

\* So does the answer.
LEMMA AnswerKept ==
  ASSUME answer # None => AnswerWhole(answer, RouteByName(msg)),
         config' = config, msg' = msg, answer' = answer
  PROVE  (answer # None => AnswerWhole(answer, RouteByName(msg)))'
BY RouteByNameKept, Zenon

\* Steps of the connector, which leave the edge's variables alone.
LEMMA EdgeKept ==
  ASSUME RoutingInv, UNCHANGED <<config, req, match, msg>>
  PROVE  /\ (match # None => ChosenFor(match, req))'
         /\ (msg # None => Carries(msg, match, req))'
BY ChosenKept, CarriedKept, Zenon DEF RoutingInv

\* Steps of the edge before it has sent a message, which leave it without a call.
LEMMA NothingSent ==
  ASSUME Staged, msg = None
  PROVE  backend = None /\ answer = None
BY Zenon DEF Staged

\* Nothing is set before a request is there.
LEMMA NothingYet ==
  ASSUME Staged, req = None
  PROVE  match = None /\ msg = None /\ backend = None /\ answer = None /\ status = None
BY Zenon DEF Staged

\* A step that does not refuse, of a request that was not refused.
LEMMA NotRefused ==
  ASSUME status' \in (Statuses \cup {None}) \ {"refused"}
  PROVE  RefusedCause'
BY DEF RefusedCause

-----------------------------------------------------------------------------
(* One lemma per action that does more than set a status.                  *)

\* The initial states satisfy the invariant.
LEMMA InitInv == Init => RoutingInv
<1> SUFFICES ASSUME Init PROVE RoutingInv
  OBVIOUS
<1>1. Loaded
  BY DEF Init, Loaded
<1>2. Staged
  BY DEF Init, Staged
<1>3. RefusedCause
  BY NoneAssumption DEF Init, RefusedCause, Statuses
<1> QED
  BY <1>1, <1>2, <1>3, Zenon DEF Init, RoutingInv

\* LoadEdge and LoadConnector validate, before any request.
LEMMA LoadInv ==
  ASSUME RoutingInv, LoadEdge \/ LoadConnector
  PROVE  RoutingInv'
<1>1. UNCHANGED <<config, req, match, msg, backend, answer, status>>
  BY Zenon DEF LoadEdge, LoadConnector, reqVars
<1>2. Loaded'
  BY <1>1 DEF RoutingInv, Loaded, LoadEdge, LoadConnector
<1>3. Staged'
  BY <1>1 DEF RoutingInv, Staged, LoadEdge, LoadConnector
<1>4. RefusedCause'
  BY <1>1, Zenon DEF RoutingInv, RefusedCause
<1> QED
  BY <1>1, <1>2, <1>3, <1>4, EdgeKept, CallKept, AnswerKept, Zenon DEF RoutingInv

\* A step that changes no variable of the model.
LEMMA StutterInv ==
  ASSUME RoutingInv, UNCHANGED vars
  PROVE  RoutingInv'
<1>1. UNCHANGED <<config, edge, connector, req, match, msg, backend, answer, status>>
  BY Zenon DEF vars, reqVars
<1>2. Loaded'
  BY <1>1 DEF RoutingInv, Loaded
<1>3. Staged'
  BY <1>1 DEF RoutingInv, Staged
<1>4. RefusedCause'
  BY <1>1, Zenon DEF RoutingInv, RefusedCause
<1> QED
  BY <1>1, <1>2, <1>3, <1>4, EdgeKept, CallKept, AnswerKept, Zenon DEF RoutingInv

\* Receive and Return: no handler, or one that has just started.
LEMMA HandlerInv ==
  ASSUME RoutingInv, (\E q \in Requests : Receive(q)) \/ Return
  PROVE  RoutingInv'
<1>1. UNCHANGED <<config, edge, connector>>
  BY Zenon DEF Receive, Return
<1>2. match' = None /\ msg' = None /\ backend' = None /\ answer' = None /\ status' = None
  BY NothingYet, Zenon DEF RoutingInv, Receive, Return
<1>3. Loaded'
  BY <1>1 DEF RoutingInv, Loaded
<1>4. Staged'
  BY <1>1, <1>2 DEF RoutingInv, Staged, Receive, Return
<1>5. RefusedCause'
  BY <1>2, NoneAssumption DEF RefusedCause, Statuses
<1> QED
  BY <1>2, <1>3, <1>4, <1>5, Zenon DEF RoutingInv

\* Healthz, NotFound, NoResponders, RejectOpen, RefusePath and BackendError only
\* answer the client.
LEMMA AnsweredInv ==
  ASSUME RoutingInv,
         Healthz \/ NotFound \/ NoResponders \/ RejectOpen \/ RefusePath \/ BackendError
  PROVE  RoutingInv'
<1>1. UNCHANGED <<config, edge, connector, req, match, msg, backend, answer>>
  BY Zenon DEF Healthz, NotFound, NoResponders, RejectOpen, RefusePath, BackendError
<1>2. status' \in {"healthy", "404", "503", "rejected", "502", "closed"} /\ req # None
  BY DEF Healthz, NotFound, NoResponders, RejectOpen, RefusePath, BackendError,
         Arrived, Sent, Answering, RoutingInv, Staged
<1>3. Loaded'
  BY <1>1 DEF RoutingInv, Loaded
<1>4. Staged'
  BY <1>1, <1>2, NoneAssumption DEF RoutingInv, Staged, Statuses
<1>5. RefusedCause'
  BY <1>2, NotRefused DEF Statuses
<1> QED
  BY <1>1, <1>3, <1>4, <1>5, EdgeKept, CallKept, AnswerKept, Zenon DEF RoutingInv

\* The edge's route for a request in its handler.
LEMMA MatchChosen ==
  ASSUME RoutingInv, NEW mode \in {"http", "websocket"},
         MatchRoute(config.edge.routes, mode, req) # None
  PROVE  LET r == MatchRoute(config.edge.routes, mode, req)
         IN  r \in Route /\ r.mode = mode /\ ChosenFor(r, req) /\ Matches(r, req)
<1>1. config.edge.routes \in Seq(Route)
  BY ConfigTypes DEF RoutingInv
<1>2. PICK i \in DOMAIN config.edge.routes :
           /\ MatchRoute(config.edge.routes, mode, req) = config.edge.routes[i]
           /\ config.edge.routes[i].mode = mode /\ Matches(config.edge.routes[i], req)
           /\ \A j \in DOMAIN config.edge.routes :
                config.edge.routes[j].mode = mode /\ Matches(config.edge.routes[j], req) =>
                  RouteLength(config.edge.routes[j]) <= RouteLength(config.edge.routes[i])
  BY <1>1, MatchRouteFound
<1>3. config.edge.routes[i] \in Route
  BY <1>1, RouteAt
<1> QED
  BY <1>2, <1>3, Zenon DEF ChosenFor

\* What the edge refuses of a route that matched.
LEMMA RefusedFor ==
  ASSUME RoutingInv, req # None, NEW r \in Route, Matches(r, req),
         \/ Head(Suffix(r, req)) # "/" \/ Contains(Suffix(r, req), "#") \/ req.host[1] = ""
  PROVE  \/ Contains(req.path, "#") \/ Contains(req.query, "#") \/ req.host[1] = ""
         \/ /\ r.prefix # <<>> /\ Last(r.prefix) = "/"
            /\ Len(req.path) > Len(r.prefix)
<1>1. req \in Request
  BY RequestsAssumption DEF RoutingInv, Staged
<1>2. CASE req.host[1] = ""
  BY <1>2
<1>3. CASE Head(Suffix(r, req)) # "/" \/ Contains(Suffix(r, req), "#")
  BY <1>1, <1>3, SuffixRefused, Zenon
<1> QED
  BY <1>2, <1>3

\* HandleWebSocketRoute and ServeUnary, once their choice is known to be right.
LEMMA EdgeStepInv ==
  ASSUME RoutingInv, Arrived, UNCHANGED <<config, edge, connector, req, backend, answer>>,
         match' # None, ChosenFor(match', req),
         \/ UNCHANGED msg /\ status' \in {"400", "413"}
         \/ /\ UNCHANGED msg /\ status' = "refused"
            /\ \/ Contains(req.path, "#") \/ Contains(req.query, "#") \/ req.host[1] = ""
               \/ /\ match'.prefix # <<>> /\ Last(match'.prefix) = "/"
                  /\ Len(req.path) > Len(match'.prefix)
         \/ UNCHANGED status /\ Carries(msg', match', req)
  PROVE  RoutingInv'
<1>1. req # None /\ match = None /\ status = None
  BY Zenon DEF Arrived
<1>2. msg = None /\ backend = None /\ answer = None
  BY <1>1, Zenon DEF RoutingInv, Staged
<1>3. Loaded'
  BY DEF RoutingInv, Loaded
<1>4. Staged'
  BY <1>1, <1>2 DEF RoutingInv, Staged, Statuses
<1>5. ChosenFor(match, req)'
  BY Zenon DEF ChosenFor
<1>6. (msg # None => Carries(msg, match, req))'
  BY <1>2, Zenon
<1>7. RefusedCause'
  <2> SUFFICES ASSUME status' = "refused" PROVE RefusedCause'
    BY Zenon DEF RefusedCause
  <2>1. status' # status
    BY <1>1, NoneAssumption DEF Statuses
  <2>2. \/ Contains(req.path, "#") \/ Contains(req.query, "#") \/ req.host[1] = ""
        \/ /\ match'.prefix # <<>> /\ Last(match'.prefix) = "/"
           /\ Len(req.path) > Len(match'.prefix)
    BY <2>1
  <2> QED BY <2>2, Zenon DEF RefusedCause
<1> QED
  BY <1>2, <1>3, <1>4, <1>5, <1>6, <1>7, Zenon DEF RoutingInv

\* handleWebSocketRoute.
LEMMA HandleWebSocketRouteInv ==
  ASSUME RoutingInv, HandleWebSocketRoute
  PROVE  RoutingInv'
<1> DEFINE r == WS(req)
           m == [kind |-> "websocket", route |-> r.name, host |-> req.host[1],
                 path |-> Suffix(r, req), body |-> 0]
<1>1. /\ Arrived /\ r # None /\ match' = r
      /\ UNCHANGED <<config, edge, connector, req, backend, answer>>
  BY Zenon DEF HandleWebSocketRoute
<1>2. r \in Route /\ r.mode = "websocket" /\ ChosenFor(r, req) /\ Matches(r, req)
  BY <1>1, MatchChosen DEF WS
<1>3. \/ UNCHANGED msg /\ status' = "400"
      \/ UNCHANGED msg /\ status' = "refused" /\ ~ValidOpen(m)
      \/ UNCHANGED status /\ msg' = m /\ ValidOpen(m)
  BY Zenon DEF HandleWebSocketRoute
<1>4. ValidOpen(m) => Carries(m, r, req)
  <2>1. /\ m.route = r.name /\ m.kind = r.mode /\ m.body = 0 /\ m.kind # "http"
        /\ m.path = Suffix(r, req)
    BY <1>2
  <2>2. 0 \in 0..MaxInt
    BY MaxIntAssumption
  <2> HIDE DEF m, r
  <2> QED BY <2>1, <2>2, Zenon DEF Carries, ValidOpen
<1>5. ~ValidOpen(m) => Head(Suffix(r, req)) # "/" \/ Contains(Suffix(r, req), "#")
  BY DEF ValidOpen
<1>6. ~ValidOpen(m) =>
        \/ Contains(req.path, "#") \/ Contains(req.query, "#") \/ req.host[1] = ""
        \/ /\ r.prefix # <<>> /\ Last(r.prefix) = "/"
           /\ Len(req.path) > Len(r.prefix)
  <2> HIDE DEF r, m
  <2>1. req # None
    BY <1>1, Zenon DEF Arrived
  <2> QED BY <1>2, <1>5, <2>1, RefusedFor, Zenon
<1> HIDE DEF r, m
<1> QED
  BY <1>1, <1>2, <1>3, <1>4, <1>6, EdgeStepInv

\* serveUnary.
LEMMA ServeUnaryInv ==
  ASSUME RoutingInv, ServeUnary
  PROVE  RoutingInv'
<1> DEFINE r == HTTP(req)
           limit == RequestLimit(r)
           data == ReadBounded(req.body, limit)
           m == [kind |-> "http", route |-> r.name, host |-> req.host[1],
                 path |-> Suffix(r, req), body |-> data]
<1>1. /\ Arrived /\ r # None /\ match' = r
      /\ UNCHANGED <<config, edge, connector, req, backend, answer>>
  BY Zenon DEF ServeUnary
<1>2. r \in Route /\ r.mode = "http" /\ ChosenFor(r, req) /\ Matches(r, req)
  BY <1>1, MatchChosen DEF HTTP
<1>3. \/ UNCHANGED msg /\ status' = "413"
      \/ UNCHANGED msg /\ status' = "refused" /\ ~ValidEnvelope(m)
      \/ UNCHANGED status /\ msg' = m /\ ~TooLarge(data, limit) /\ ValidEnvelope(m)
  BY Zenon DEF ServeUnary
<1>r. req # None /\ req \in Request
  BY <1>1, RequestsAssumption DEF Arrived, RoutingInv, Staged
<1>4. ~TooLarge(data, limit) /\ ValidEnvelope(m) => Carries(m, r, req)
  <2>1. req.body \in Nat
    BY <1>r DEF Request
  <2>2. limit \in 1..MaxInt
    BY <1>2, RouteLimits
  <2>3. /\ data \in 0..MaxInt
        /\ limit < MaxInt /\ ~TooLarge(data, limit) => data = req.body
    BY <2>1, <2>2, ReadBoundedWhole, Zenon
  <2>4. ~TooLarge(data, limit) => data <= limit
    BY <2>2, <2>3 DEF TooLarge
  <2>5. m.route = r.name /\ m.kind = r.mode /\ m.body = data /\ m.path = Suffix(r, req)
    BY <1>2
  <2> HIDE DEF m, data
  <2> QED BY <2>3, <2>4, <2>5, Zenon DEF Carries, ValidEnvelope
<1>5. ~ValidEnvelope(m) => \/ Head(Suffix(r, req)) # "/" \/ Contains(Suffix(r, req), "#")
                           \/ req.host[1] = ""
  BY DEF ValidEnvelope
<1>6. ~ValidEnvelope(m) =>
        \/ Contains(req.path, "#") \/ Contains(req.query, "#") \/ req.host[1] = ""
        \/ /\ r.prefix # <<>> /\ Last(r.prefix) = "/"
           /\ Len(req.path) > Len(r.prefix)
  <2> HIDE DEF r, m
  <2> QED BY <1>2, <1>5, <1>r, RefusedFor, Zenon
<1> HIDE DEF r, m, data, limit
<1> QED
  BY <1>1, <1>2, <1>3, <1>4, <1>6, EdgeStepInv

\* serveUnary where the body cannot be read.
LEMMA RequestUnreadInv ==
  ASSUME RoutingInv, RequestUnread
  PROVE  RoutingInv'
<1>1. /\ Arrived /\ HTTP(req) # None /\ match' = HTTP(req) /\ status' = "400"
      /\ UNCHANGED <<config, edge, connector, req, msg, backend, answer>>
  BY Zenon DEF RequestUnread
<1>2. ChosenFor(HTTP(req), req)
  BY <1>1, MatchChosen DEF HTTP
<1> QED
  BY <1>1, <1>2, EdgeStepInv

\* A route that the connector has for a message is one of its configuration.
LEMMA ConnectorRoute ==
  ASSUME RoutingInv, RouteByName(msg) # None
  PROVE  /\ RouteByName(msg) \in Route
         /\ RouteByName(msg).mode = "http" <=> msg.kind = "http"
<1>1. config.connector.routes \in Seq(Route)
  BY ConfigTypes DEF RoutingInv
<1>2. PICK i \in DOMAIN config.connector.routes :
           /\ RouteByName(msg) = config.connector.routes[i]
           /\ config.connector.routes[i].mode = "http" <=> msg.kind = "http"
  BY <1>1, RouteByNameFound, Zenon
<1>3. config.connector.routes[i] \in Route
  BY <1>1, RouteAt
<1> QED
  BY <1>2, <1>3, Zenon

\* Forward and DialBackend call the route's target.
LEMMA CallInv ==
  ASSUME RoutingInv, Forward \/ DialBackend
  PROVE  RoutingInv'
<1>1. /\ UNCHANGED <<config, edge, connector, req, match, msg, answer>>
      /\ Sent /\ Subscribed /\ backend' = BackendCall
  BY Zenon DEF Forward, DialBackend
<1>2. status' \in {None, "open"} /\ status = None /\ msg # None
  BY <1>1 DEF Forward, DialBackend, Sent
<1>3. req # None /\ answer = None /\ connector = "up" /\ RouteByName(msg) # None
  BY <1>1, <1>2, Zenon DEF RoutingInv, Staged, Subscribed
<1>4. RouteByName(msg).mode = msg.kind
  BY <1>3, ConnectorRoute DEF Forward, DialBackend
<1>5. CallOf(backend, msg)'
  <2>1. /\ BackendCall.addr = RouteByName(msg).target.addr
        /\ BackendCall.path = TargetURL(RouteByName(msg).target.base, msg.path).path
        /\ BackendCall.query = TargetURL(RouteByName(msg).target.base, msg.path).query
    BY DEF BackendCall
  <2> QED BY <1>1, <1>3, <1>4, <2>1, RouteByNameKept, Zenon DEF CallOf
<1>6. Loaded'
  BY <1>1 DEF RoutingInv, Loaded
<1>7. Staged'
  BY <1>1, <1>2, <1>3 DEF RoutingInv, Staged, Statuses
<1>8. RefusedCause'
  BY <1>2, NoneAssumption DEF RefusedCause, Statuses
<1> QED
  BY <1>1, <1>3, <1>5, <1>6, <1>7, <1>8, EdgeKept, Zenon DEF RoutingInv

\* The two ways an answer is passed on.
LEMMA AnswerInv ==
  ASSUME RoutingInv, NEW a \in Answers, AnswerStreamed(a) \/ AnswerInline(a)
  PROVE  RoutingInv'
<1> DEFINE r == RouteByName(msg)
<1>1. UNCHANGED <<config, edge, connector, req, match, msg, backend>>
  BY Zenon DEF AnswerStreamed, AnswerInline
<1>2. backend # None /\ status' \in {"stream", "502", "200"}
  BY DEF AnswerStreamed, AnswerInline, Answering
<1>3. req # None /\ r # None
  BY <1>2, Zenon DEF RoutingInv, Staged, CallOf
<1>4. ResponseLimit(r) \in 1..MaxInt
  BY <1>3, ConnectorRoute, RouteLimits, Zenon
<1>5. a.body \in Nat
  BY AnswersAssumption
<1>6. AnswerWhole(answer, RouteByName(msg))'
  <2>1. \/ answer' = [body |-> a.body, inline |-> None]
        \/ /\ answer' = [body |-> a.body, inline |-> ReadBounded(a.body, ResponseLimit(r))]
           /\ ~TooLarge(ReadBounded(a.body, ResponseLimit(r)), ResponseLimit(r))
    BY Zenon DEF AnswerStreamed, AnswerInline
  <2>2. PICK limit \in 1..MaxInt : limit = ResponseLimit(r)
    BY <1>4
  <2>3. PICK data \in 0..MaxInt :
          /\ data = ReadBounded(a.body, ResponseLimit(r))
          /\ limit < MaxInt /\ ~TooLarge(data, limit) => data = a.body
    BY <1>5, <2>2, ReadBoundedWhole, Zenon
  <2> HIDE DEF r
  <2>4. \/ answer'.body = a.body /\ answer'.inline = None
        \/ answer'.body = a.body /\ answer'.inline = data /\ ~TooLarge(data, limit)
    BY <2>1, <2>2, <2>3
  <2>5. AnswerWhole(answer', r)
    BY <2>2, <2>3, <2>4, Zenon DEF AnswerWhole
  <2> QED BY <1>1, <2>5, RouteByNameKept, Zenon DEF r
<1>7. Loaded'
  BY <1>1 DEF RoutingInv, Loaded
<1>8. Staged'
  <2> HIDE DEF r
  <2>1. status' # None
    BY <1>2, NoneAssumption DEF Statuses
  <2> QED BY <1>1, <1>2, <1>3, <2>1 DEF RoutingInv, Staged, Statuses
<1>9. RefusedCause'
  BY <1>2, NotRefused DEF Statuses
<1> QED
  BY <1>1, <1>6, <1>7, <1>8, <1>9, EdgeKept, CallKept, Zenon DEF RoutingInv

-----------------------------------------------------------------------------
(* The theorems.                                                           *)

\* The invariant of a request's way from the edge to the backend and back holds
\* for every deployment, request and answer.
THEOREM RoutingInvariant == Spec => []RoutingInv
<1>1. RoutingInv /\ [Next]_vars => RoutingInv'
  BY LoadInv, StutterInv, HandlerInv, AnsweredInv, HandleWebSocketRouteInv, ServeUnaryInv,
     RequestUnreadInv, CallInv, AnswerInv, Zenon DEF Next
<1> QED
  BY <1>1, InitInv, PTL DEF Spec

\* The variables of a handler keep their shapes and are set in the order of its
\* calls; the lengths of bodies are int64s that are not negative.
THEOREM RoutingTypes == Spec => []TypeOK
<1>1. RoutingInv => TypeOK
  BY Zenon DEF RoutingInv, Loaded, Staged, Carries, AnswerWhole, TypeOK
<1> QED
  BY <1>1, RoutingInvariant, PTL

\* With one configuration at both ends the connector's choice by name is the
\* route that the edge matched.
LEMMA SameRoute ==
  ASSUME RoutingInv, backend # None, config.edge = config.connector
  PROVE  RouteByName(msg) = match
<1>1. /\ msg # None /\ match # None /\ connector = "up" /\ RouteByName(msg) # None
      /\ msg.route = match.name
  BY Zenon DEF RoutingInv, Staged, CallOf, Carries
<1>2. PICK i \in DOMAIN config.connector.routes : match = config.connector.routes[i]
  BY <1>1, Zenon DEF RoutingInv, ChosenFor
<1>3. config.connector \in Config /\ Validate(config.connector)
      /\ config.connector.routes \in Seq(Route)
  BY <1>1, ConfigTypes, Zenon DEF RoutingInv, Loaded
<1>4. PICK j \in DOMAIN config.connector.routes :
         RouteByName(msg) = config.connector.routes[j]
         /\ config.connector.routes[j].name = msg.route
  BY <1>1, <1>3, RouteByNameFound, Zenon
<1>5. i = j
  BY <1>1, <1>2, <1>3, <1>4, NamesUnique, Zenon
<1> QED
  BY <1>2, <1>4, <1>5, Zenon

\* With one configuration at both ends the backend called is the target of the
\* route the edge matched: Validate's unique names make the connector's choice
\* by name the edge's choice by pattern.
THEOREM BackendOfMatch == Spec => []RightBackend
<1>1. RoutingInv => RightBackend
  <2> SUFFICES ASSUME RoutingInv, backend # None, config.edge = config.connector
               PROVE  backend.addr = match.target.addr
    BY Zenon DEF RightBackend
  <2>1. RouteByName(msg) = match
    BY SameRoute, Zenon
  <2> QED BY <2>1, Zenon DEF RoutingInv, CallOf
<1> QED
  BY <1>1, RoutingInvariant, PTL

\* With one configuration at both ends a request that a prefix matched reaches the
\* backend under the target's path and the segments of the public path behind the
\* prefix, with the client's query, unless the path has a "?" or a "%":
\* the cuts that matchRoute, withQuery, url.ParseRequestURI and targetURL make in
\* strings fall on slashes, and the connector's target is the edge's.
THEOREM PathPreserved == Spec => []PathKept
<1>1. RoutingInv => PathKept
  <2> SUFFICES ASSUME RoutingInv, backend # None, config.edge = config.connector,
                      ~Contains(req.path, "?"), ~Contains(req.path, "%"),
                      req.path # match.exact
               PROVE  PathKept
    BY Zenon DEF PathKept
  <2>1. RouteByName(msg) = match
    BY SameRoute, Zenon
  <2>2. /\ msg.path = Suffix(match, req) /\ Head(Suffix(match, req)) = "/"
        /\ req # None /\ match # None
    BY Zenon DEF RoutingInv, Staged, Carries
  <2>3. /\ backend.path = TargetURL(match.target.base, Suffix(match, req)).path
        /\ backend.query = TargetURL(match.target.base, Suffix(match, req)).query
    BY <2>1, <2>2, Zenon DEF RoutingInv, CallOf
  <2>4. req \in Request
    BY <2>2, RequestsAssumption DEF RoutingInv, Staged
  <2>5. match \in Route /\ Matches(match, req)
    BY <2>2, ConfigTypes, RouteAt DEF RoutingInv, ChosenFor
  <2> QED BY <2>2, <2>3, <2>4, <2>5, CallSegments, Zenon DEF PathKept
<1> QED
  BY <1>1, RoutingInvariant, PTL

\* Longest prefix wins across the routes of a mode that match.
THEOREM LongestWins == Spec => []LongestPrefix
<1>1. RoutingInv => LongestPrefix
  <2> SUFFICES ASSUME RoutingInv, match # None, NEW i \in DOMAIN config.edge.routes,
                      config.edge.routes[i].mode = match.mode,
                      Matches(config.edge.routes[i], req)
               PROVE  Len(config.edge.routes[i].prefix \o config.edge.routes[i].exact)
                        <= Len(match.prefix \o match.exact)
    BY Zenon DEF LongestPrefix
  <2>1. PICK j \in DOMAIN config.edge.routes : match = config.edge.routes[j]
    BY Zenon DEF RoutingInv, ChosenFor
  <2>2. RouteLength(config.edge.routes[i]) <= RouteLength(match)
    BY Zenon DEF RoutingInv, ChosenFor
  <2>3. config.edge.routes[i] \in Route /\ match \in Route
    BY <2>1, ConfigTypes, RouteAt DEF RoutingInv
  <2>4. ASSUME NEW r \in Route PROVE Len(r.prefix \o r.exact) = RouteLength(r)
    <3>1. r.prefix \in Seq(STRING) /\ r.exact \in Seq(STRING)
      BY <2>4 DEF Route, Path
    <3> QED BY <3>1, ConcatProperties, Zenon DEF RouteLength
  <2> QED BY <2>2, <2>3, <2>4
<1> QED
  BY <1>1, RoutingInvariant, PTL

\* A matched request is refused only for what the envelope cannot carry, or for
\* a public_prefix that ends in a slash.  The second is the one way in which the code
\* falls short of RefusedOnly, what the guide's virtual hosts need.
THEOREM RefusedForCause == Spec => []RefusedCause
BY RoutingInvariant, PTL DEF RoutingInv

\* The bounded read never cuts a body short, in either direction.
THEOREM WholeBodies == Spec => []BodiesWhole
<1>1. RoutingInv => BodiesWhole
  BY Zenon DEF RoutingInv, Carries, AnswerWhole, BodiesWhole
<1> QED
  BY <1>1, RoutingInvariant, PTL

\* No body beyond the configured limit reaches NATS, even where the product of
\* number and unit overflows: a product that wraps to zero exceeds every int64,
\* one that wraps to less is a smaller limit, and Validate refuses the others.
THEOREM LimitEnforced == Spec => []LimitHolds
<1>1. RoutingInv => LimitHolds
  <2> SUFFICES ASSUME RoutingInv, msg # None, msg.kind = "http", match.maxInlineRequest.n > 0
               PROVE  msg.body <= match.maxInlineRequest.n * match.maxInlineRequest.unit
    BY Zenon DEF LimitHolds
  <2>1. match # None /\ edge = "up" /\ Validate(config.edge)
    BY Zenon DEF RoutingInv, Staged, Loaded
  <2>2. PICK i \in DOMAIN config.edge.routes : match = config.edge.routes[i]
    BY <2>1, Zenon DEF RoutingInv, ChosenFor
  <2>3. match \in Route /\ ValidRoute(match)
    BY <2>1, <2>2, ConfigTypes, RouteAt DEF RoutingInv, Validate
  <2>4. PICK s \in Size : s = match.maxInlineRequest
    BY <2>3 DEF Route
  <2>5. ParseBytes(s) >= 0
    BY <2>3, <2>4 DEF ValidRoute, Sizes
  <2>6. msg.body \in 0..MaxInt /\ msg.body <= RequestLimit(match)
    BY Zenon DEF RoutingInv, Carries
  <2>7. ParseBytes(s) > 0 => RequestLimit(match) = ParseBytes(s)
    BY <2>4, Zenon DEF RequestLimit, Limit
  <2>8. PICK p \in Nat : p = s.n * s.unit
    BY ParseBytesRange
  <2>9. /\ p > 0 /\ ParseBytes(s) \in Int /\ ParseBytes(s) <= p
        /\ p <= MaxInt => ParseBytes(s) = p
    BY <2>4, <2>8, ParseBytesRange
  <2>10. msg.body <= p
    BY <2>5, <2>6, <2>7, <2>9, MaxIntAssumption
  <2> QED BY <2>4, <2>8, <2>10, Zenon
<1> QED
  BY <1>1, RoutingInvariant, PTL
=============================================================================

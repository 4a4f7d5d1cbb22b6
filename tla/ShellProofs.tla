---------------------------- MODULE ShellProofs ----------------------------
(***************************************************************************)
(* Proofs about the shell, for every line, every list of words and every   *)
(* size of argv, of the environment and of the working directory.  The     *)
(* tokenizer is a loop over the line; what it returns is shown by          *)
(* induction on the characters read.                                       *)
(***************************************************************************)
EXTENDS Shell, SequenceTheorems, WellFoundedInduction, TLAPS

-----------------------------------------------------------------------------
(* Induction on the natural numbers.                                       *)

\* A non-empty set of naturals has a least element.
LEMMA LeastElement ==
  ASSUME NEW T \in SUBSET Nat, T # {}
  PROVE  \E x \in T : \A y \in T : x <= y
<1> DEFINE R == OpToRel(<, Nat)
<1>1. IsWellFoundedOn(R, Nat)
  BY NatLessThanWellFounded
<1>2. \A x, y \in Nat : y < x => <<y, x>> \in R
  BY DEF OpToRel
<1> HIDE DEF R
<1>3. PICK x \in T : \A y \in T : ~(<<y, x>> \in R)
  BY <1>1, WFMin
<1>4. ASSUME NEW y \in T PROVE x <= y
  <2>1. ~(y < x)
    BY <1>2, <1>3
  <2> QED BY <2>1
<1> QED BY <1>4

\* Induction, for a property given as the set of its numbers.
LEMMA SetInduction ==
  ASSUME NEW S, 0 \in S, \A k \in Nat : k \in S => k + 1 \in S
  PROVE  \A k \in Nat : k \in S
<1> DEFINE T == {k \in Nat : k \notin S}
<1> SUFFICES ASSUME T # {} PROVE FALSE
  OBVIOUS
<1>1. T \in SUBSET Nat
  OBVIOUS
<1>2. PICK x \in T : \A y \in T : x <= y
  <2> HIDE DEF T
  <2> QED BY <1>1, LeastElement
<1>3. x \in Nat /\ x # 0
  OBVIOUS
<1>4. x - 1 \in Nat /\ x - 1 \notin T
  BY <1>2, <1>3
<1>5. (x - 1) + 1 \in S
  BY <1>4
<1> QED BY <1>3, <1>5

\* A bounded set of naturals has a greatest element.
LEMMA GreatestElement ==
  ASSUME NEW n \in Nat, NEW T \in SUBSET (0..n), T # {}
  PROVE  \E x \in T : \A y \in T : y <= x
<1> DEFINE U == {n - k : k \in T}
<1>1. U \in SUBSET Nat /\ U # {}
  <2>1. \A k \in T : n - k \in Nat
    OBVIOUS
  <2>2. PICK k \in T : TRUE
    OBVIOUS
  <2>3. n - k \in U
    OBVIOUS
  <2> QED BY <2>1, <2>3
<1>2. PICK u \in U : \A v \in U : u <= v
  <2> HIDE DEF U
  <2> QED BY <1>1, LeastElement
<1>3. PICK x \in T : u = n - x
  OBVIOUS
<1>4. ASSUME NEW y \in T PROVE y <= x
  <2>1. n - y \in U
    OBVIOUS
  <2>2. u <= n - y
    BY <1>2, <2>1
  <2> QED BY <1>3, <2>2
<1> QED BY <1>4

\* The line is read character by character.
Token0 == Token(<<>>, 1, FALSE, FALSE)

ScanLoop(line, g) ==
  /\ g[0] = Token0 /\ g[Len(line) + 1].argv = Tokenize(line)
  /\ \A k \in 1..(Len(line) + 1) : g[k] = Scan(line, g[k - 1], k)

\* Tokenize is that loop.
LEMMA ScanRec ==
  ASSUME NEW line, Len(line) \in Nat
  PROVE  \E g : ScanLoop(line, g)
<1> DEFINE Def(g, n) ==
             [k \in 0..n |-> IF k = 0 THEN Token0 ELSE Scan(line, g[k - 1], k)]
           S == {n \in Nat : \E g : g = Def(g, n)}
           f == CHOOSE g : g = Def(g, Len(line) + 1)
<1>1. 0 \in S
  <2>1. [k \in 0..0 |-> Token0] = Def([k \in 0..0 |-> Token0], 0)
    OBVIOUS
  <2> QED BY <2>1
<1>2. ASSUME NEW n \in Nat, n \in S PROVE n + 1 \in S
  <2>1. PICK g : g = Def(g, n)
    BY <1>2
  <2> DEFINE h == [k \in 0..(n + 1) |-> IF k <= n THEN g[k]
                                        ELSE Scan(line, g[n], n + 1)]
  <2>2. ASSUME NEW k \in 0..(n + 1)
        PROVE  h[k] = IF k = 0 THEN Token0 ELSE Scan(line, h[k - 1], k)
    <3>1. CASE k <= n
      <4>1. h[k] = g[k] /\ (k # 0 => h[k - 1] = g[k - 1])
        BY <3>1
      <4>2. g[k] = IF k = 0 THEN Token0 ELSE Scan(line, g[k - 1], k)
        BY <2>1, <3>1
      <4> HIDE DEF h
      <4> QED BY <4>1, <4>2
    <3>2. CASE k = n + 1
      <4>1. h[k] = Scan(line, g[n], n + 1) /\ h[k - 1] = g[n]
        BY <3>2
      <4> HIDE DEF h
      <4> QED BY <3>2, <4>1
    <3> QED BY <3>1, <3>2
  <2>3. h = Def(h, n + 1)
    BY <2>2
  <2> HIDE DEF h
  <2>4. \E x : x = Def(x, n + 1)
    BY <2>3, Zenon
  <2> HIDE DEF Def
  <2> QED BY <2>4
<1>3. Len(line) + 1 \in S
  <2> HIDE DEF S
  <2> QED BY <1>1, <1>2, SetInduction
<1>4. f = Def(f, Len(line) + 1)
  BY <1>3
<1>5. f[Len(line) + 1].argv = Tokenize(line)
  BY DEF Tokenize, Token0
<1> HIDE DEF f
<1>6. /\ f[0] = Token0
      /\ \A k \in 1..(Len(line) + 1) : f[k] = Scan(line, f[k - 1], k)
  BY <1>4
<1> QED BY <1>5, <1>6 DEF ScanLoop

\* The line is put together word by word.
LineLoop(ws, g) ==
  /\ g[0] = <<>> /\ g[Len(ws)] = Typed(ws)
  /\ \A k \in 1..Len(ws) : g[k] = AddWord(g[k - 1], ws[k])

\* Typed is that loop.
LEMMA LineRec ==
  ASSUME NEW ws, Len(ws) \in Nat
  PROVE  \E g : LineLoop(ws, g)
<1> DEFINE Def(g, n) ==
             [k \in 0..n |-> IF k = 0 THEN <<>> ELSE AddWord(g[k - 1], ws[k])]
           S == {n \in Nat : \E g : g = Def(g, n)}
           f == CHOOSE g : g = Def(g, Len(ws))
<1>1. 0 \in S
  <2>1. [k \in 0..0 |-> <<>>] = Def([k \in 0..0 |-> <<>>], 0)
    OBVIOUS
  <2> QED BY <2>1
<1>2. ASSUME NEW n \in Nat, n \in S PROVE n + 1 \in S
  <2>1. PICK g : g = Def(g, n)
    BY <1>2
  <2> DEFINE h == [k \in 0..(n + 1) |-> IF k <= n THEN g[k]
                                        ELSE AddWord(g[n], ws[n + 1])]
  <2>2. ASSUME NEW k \in 0..(n + 1)
        PROVE  h[k] = IF k = 0 THEN <<>> ELSE AddWord(h[k - 1], ws[k])
    <3>1. CASE k <= n
      <4>1. h[k] = g[k] /\ (k # 0 => h[k - 1] = g[k - 1])
        BY <3>1
      <4>2. g[k] = IF k = 0 THEN <<>> ELSE AddWord(g[k - 1], ws[k])
        BY <2>1, <3>1
      <4> HIDE DEF h
      <4> QED BY <4>1, <4>2
    <3>2. CASE k = n + 1
      <4>1. h[k] = AddWord(g[n], ws[n + 1]) /\ h[k - 1] = g[n]
        BY <3>2
      <4> HIDE DEF h
      <4> QED BY <3>2, <4>1
    <3> QED BY <3>1, <3>2
  <2>3. h = Def(h, n + 1)
    BY <2>2
  <2> HIDE DEF h
  <2>4. \E x : x = Def(x, n + 1)
    BY <2>3, Zenon
  <2> HIDE DEF Def
  <2> QED BY <2>4
<1>3. Len(ws) \in S
  <2> HIDE DEF S
  <2> QED BY <1>1, <1>2, SetInduction
<1>4. f = Def(f, Len(ws))
  BY <1>3
<1>5. f[Len(ws)] = Typed(ws)
  BY DEF Typed
<1> HIDE DEF f
<1>6. /\ f[0] = <<>>
      /\ \A k \in 1..Len(ws) : f[k] = AddWord(f[k - 1], ws[k])
  BY <1>4
<1> QED BY <1>5, <1>6 DEF LineLoop


-----------------------------------------------------------------------------
(* Execute's tokenizer.                                                    *)

Str == Seq(Symbol)

\* The sizes of the tables.
LEMMA Sizes ==
  /\ MaxArgs \in Nat /\ MaxArgs > 0 /\ EnvSize \in Nat /\ EnvSize > 0
  /\ CwdMax \in Nat /\ CwdMax > 0 /\ ValMax \in Nat /\ ValMax <= CwdMax
  /\ Lines \subseteq Str /\ Commands \subseteq Seq(Str)
  BY ShellAssumption DEF Str

\* The words so far fit argv, and the word being read begins before
\* character i.
ScanOK(t, i) ==
  /\ t.argv \in Seq(Str) /\ Len(t.argv) <= MaxArgs
  /\ t.start \in 1..i

\* A word is pushed while there is room for it.
LEMMA PushOK ==
  ASSUME NEW t, t.argv \in Seq(Str), Len(t.argv) <= MaxArgs, NEW w \in Str
  PROVE  Push(t, w) \in Seq(Str) /\ Len(Push(t, w)) <= MaxArgs
<1>1. CASE Len(t.argv) < MaxArgs
  <2>1. Push(t, w) = Append(t.argv, w)
    BY <1>1 DEF Push
  <2> QED BY <1>1, <2>1, Sizes
<1>2. CASE ~(Len(t.argv) < MaxArgs)
  <2>1. Push(t, w) = t.argv
    BY <1>2 DEF Push
  <2> QED BY <2>1
<1> QED BY <1>1, <1>2

\* One turn of the loop.
LEMMA ScanStep ==
  ASSUME NEW line \in Str, NEW i \in 1..(Len(line) + 1), NEW t, ScanOK(t, i)
  PROVE  ScanOK(Scan(line, t, i), i + 1)
<1> DEFINE word == SubSeq(line, t.start, i - 1)
           u == Scan(line, t, i)
<1>0. Len(line) \in Nat /\ t.start \in Nat /\ t.start >= 1 /\ t.start <= i
  BY DEF Str, ScanOK
<1>1. word \in Str
  <2>1. t.start \in 1..(Len(line) + 1) /\ i - 1 \in t.start - 1..Len(line)
    BY <1>0
  <2> QED BY <2>1, SubSeqProperties DEF Str
<1>2. t.argv \in Seq(Str) /\ Len(t.argv) <= MaxArgs
  BY DEF ScanOK
<1>3. Push(t, word) \in Seq(Str) /\ Len(Push(t, word)) <= MaxArgs
  BY <1>1, <1>2, PushOK
<1>4. \/ u = t
      \/ u = Token(Push(t, word), t.start, FALSE, FALSE)
      \/ u = Token(t.argv, i + 1, TRUE, t.in_token)
      \/ u = Token(t.argv, i, FALSE, TRUE)
  BY Zenon DEF Scan, Unquoted
<1> HIDE DEF word, u
<1>5. /\ t.start \in 1..(i + 1) /\ i + 1 \in 1..(i + 1) /\ i \in 1..(i + 1)
  BY <1>0
<1>6. /\ u.argv \in {t.argv, Push(t, word)}
      /\ u.start \in {t.start, i + 1, i}
  <2>1. CASE u = t
    BY <2>1
  <2>2. CASE u = Token(Push(t, word), t.start, FALSE, FALSE)
    <3>1. u.argv = Push(t, word) /\ u.start = t.start
      BY <2>2 DEF Token
    <3> QED BY <3>1
  <2>3. CASE u = Token(t.argv, i + 1, TRUE, t.in_token)
    <3>1. u.argv = t.argv /\ u.start = i + 1
      BY <2>3 DEF Token
    <3> QED BY <3>1
  <2>4. CASE u = Token(t.argv, i, FALSE, TRUE)
    <3>1. u.argv = t.argv /\ u.start = i
      BY <2>4 DEF Token
    <3> QED BY <3>1
  <2> QED BY <1>4, <2>1, <2>2, <2>3, <2>4
<1>7. ScanOK(u, i + 1)
  BY <1>2, <1>3, <1>5, <1>6 DEF ScanOK
<1> QED BY <1>7 DEF u

\* argv holds strings and is never written past its end (shell.cpp:152, 171).
THEOREM TokenizeInBounds ==
  ASSUME NEW line \in Str
  PROVE  Tokenize(line) \in Seq(Str) /\ Len(Tokenize(line)) <= MaxArgs
<1>0. Len(line) \in Nat
  BY DEF Str
<1>1. PICK g : ScanLoop(line, g)
  BY <1>0, ScanRec
<1> DEFINE S == {k \in Nat : k <= Len(line) + 1 => ScanOK(g[k], k + 1)}
<1>2. 0 \in S
  <2>1. g[0] = Token(<<>>, 1, FALSE, FALSE)
    BY <1>1 DEF ScanLoop, Token0
  <2>2. g[0].argv = <<>> /\ g[0].start = 1
    BY <2>1 DEF Token
  <2>3. <<>> \in Seq(Str) /\ Len(<<>>) <= MaxArgs
    BY Sizes
  <2>4. ScanOK(g[0], 0 + 1)
    BY <2>2, <2>3 DEF ScanOK
  <2> QED BY <2>4
<1>3. ASSUME NEW k \in Nat, k \in S PROVE k + 1 \in S
  <2> SUFFICES ASSUME k + 1 <= Len(line) + 1 PROVE ScanOK(g[k + 1], (k + 1) + 1)
    OBVIOUS
  <2>1. ScanOK(g[k], k + 1)
    BY <1>0, <1>3
  <2>2. k + 1 \in 1..(Len(line) + 1) /\ (k + 1) - 1 = k
    BY <1>0
  <2>3. g[k + 1] = Scan(line, g[k], k + 1)
    BY <1>1, <2>2 DEF ScanLoop
  <2> QED BY <2>1, <2>2, <2>3, ScanStep
<1>4. Len(line) + 1 \in S
  <2> HIDE DEF S
  <2> QED BY <1>0, <1>2, <1>3, SetInduction
<1>5. ScanOK(g[Len(line) + 1], (Len(line) + 1) + 1)
  BY <1>0, <1>4
<1> QED BY <1>1, <1>5 DEF ScanLoop, ScanOK

\* A typed list of words is a line.
LEMMA TypedIsLine ==
  ASSUME NEW ws \in Seq(Str)
  PROVE  Typed(ws) \in Str
<1>0. Len(ws) \in Nat /\ \A k \in 1..Len(ws) : ws[k] \in Str
  OBVIOUS
<1>1. PICK g : LineLoop(ws, g)
  BY <1>0, LineRec
<1>2. Quote \in Symbol /\ Space \in Symbol
  BY SymbolAssumption
<1>3. ASSUME NEW w \in Str PROVE Written(w) \in Str
  <2>1. <<Quote>> \in Seq(Symbol) /\ w \in Seq(Symbol)
    BY <1>2 DEF Str
  <2>2. <<Quote>> \o w \in Seq(Symbol)
    BY <2>1, ConcatProperties
  <2>3. <<Quote>> \o w \o <<Quote>> \in Seq(Symbol)
    BY <2>1, <2>2, ConcatProperties
  <2> QED BY <2>3 DEF Written, Str
<1>4. ASSUME NEW l \in Str, NEW w \in Str PROVE AddWord(l, w) \in Str
  <2>1. Written(w) \in Str
    BY <1>3
  <2>2. <<Space>> \in Seq(Symbol) /\ l \in Seq(Symbol) /\ Written(w) \in Seq(Symbol)
    BY <1>2, <2>1 DEF Str
  <2>3. l \o <<Space>> \in Seq(Symbol)
    BY <2>2, ConcatProperties
  <2>4. l \o <<Space>> \o Written(w) \in Seq(Symbol)
    BY <2>2, <2>3, ConcatProperties
  <2> QED BY <2>1, <2>4 DEF AddWord, Str
<1> DEFINE S == {k \in Nat : k <= Len(ws) => g[k] \in Str}
<1>5. 0 \in S
  <2>1. g[0] = <<>> /\ <<>> \in Str
    BY <1>1 DEF LineLoop, Str
  <2> QED BY <2>1
<1>6. ASSUME NEW k \in Nat, k \in S PROVE k + 1 \in S
  <2> SUFFICES ASSUME k + 1 <= Len(ws) PROVE g[k + 1] \in Str
    OBVIOUS
  <2>1. g[k] \in Str
    BY <1>0, <1>6
  <2>2. k + 1 \in 1..Len(ws) /\ (k + 1) - 1 = k
    BY <1>0
  <2>3. g[k + 1] = AddWord(g[k], ws[k + 1])
    BY <1>1, <2>2 DEF LineLoop
  <2>4. ws[k + 1] \in Str
    BY <1>0, <2>2
  <2> QED BY <1>4, <2>1, <2>3, <2>4
<1>7. Len(ws) \in S
  <2> HIDE DEF S
  <2> QED BY <1>0, <1>5, <1>6, SetInduction
<1> QED BY <1>0, <1>1, <1>7 DEF LineLoop

-----------------------------------------------------------------------------
(* The environment.                                                        *)

\* A table with room for EnvSize variables, each key once, the prompt's
\* template first.
EnvOK(e) ==
  /\ \E V : e \in Seq(V)
  /\ Len(e) \in 1..EnvSize
  /\ e[1].key = PS1
  /\ \A i, j \in DOMAIN e : e[i].key = e[j].key => i = j

\* A variable's fields.
LEMMA EnvVarFields ==
  ASSUME NEW k, NEW v
  PROVE  EnvVar(k, v).key = k /\ EnvVar(k, v).value = v
  BY DEF EnvVar

\* SetEnv overwrites one variable or appends a new one.
LEMMA SetEnvOK ==
  ASSUME NEW e, EnvOK(e), NEW k, NEW v
  PROVE  EnvOK(SetEnv(e, k, v))
<1> DEFINE x == EnvVar(k, v)
           T == KeyAt(e, k)
           r == SetEnv(e, k, v)
<1>1. PICK V : e \in Seq(V)
  BY DEF EnvOK
<1>2. /\ Len(e) \in Nat /\ Len(e) >= 1 /\ Len(e) <= EnvSize /\ EnvSize \in Nat
      /\ DOMAIN e = 1..Len(e) /\ e[1].key = PS1
      /\ \A i, j \in 1..Len(e) : e[i].key = e[j].key => i = j
  BY <1>1, Sizes DEF EnvOK
<1>3. x.key = k
  BY EnvVarFields
<1>4. T = {i \in 1..Len(e) : e[i].key = k}
  BY <1>2 DEF KeyAt
<1> HIDE DEF x
<1>5. CASE T # {}
  <2> DEFINE at == CHOOSE i \in T : \A j \in T : i <= j
  <2>1. T \in SUBSET Nat
    BY <1>4
  <2>2. at \in T
    <3> HIDE DEF T
    <3>1. \E i \in T : \A j \in T : i <= j
      BY <1>5, <2>1, LeastElement
    <3> QED BY <3>1
  <2>3. r = [i \in 1..Len(e) |-> IF i = at THEN x ELSE e[i]]
    BY <1>2, <1>5 DEF SetEnv, x
  <2> HIDE DEF at, T, r
  <2>4. at \in 1..Len(e) /\ e[at].key = k
    BY <1>4, <2>2
  <2>5. r \in Seq(V \cup {x}) /\ Len(r) = Len(e) /\ DOMAIN r = 1..Len(e)
    <3>1. \A i \in 1..Len(e) : e[i] \in V
      BY <1>1
    <3>2. r \in [1..Len(e) -> V \cup {x}]
      BY <2>3, <3>1
    <3>3. DOMAIN r = 1..Len(e)
      BY <2>3
    <3>4. r \in Seq(V \cup {x})
      BY <1>2, <3>2
    <3>5. Len(r) = Len(e)
      BY <1>2, <3>3, <3>4
    <3> QED BY <3>3, <3>4, <3>5
  <2>6. \A i \in 1..Len(e) : r[i].key = e[i].key
    BY <1>3, <2>3, <2>4
  <2>7. 1 \in 1..Len(e)
    BY <1>2
  <2>8. EnvOK(r)
    BY <1>2, <2>5, <2>6, <2>7 DEF EnvOK
  <2> QED BY <2>8 DEF r
<1>6. CASE T = {} /\ Len(e) < EnvSize
  <2>1. r = Append(e, x)
    BY <1>6 DEF SetEnv, x
  <2> HIDE DEF T, r
  <2>2. e \in Seq(V \cup {x}) /\ x \in V \cup {x}
    BY <1>1
  <2> DEFINE W == V \cup {x}
  <2>3. e \in Seq(W) /\ x \in W
    BY <2>2
  <2> HIDE DEF W
  <2>4. /\ r \in Seq(W) /\ Len(r) = Len(e) + 1 /\ r[Len(e) + 1] = x
        /\ \A i \in 1..Len(e) : r[i] = e[i]
    BY <2>1, <2>3, AppendProperties
  <2>5. DOMAIN r = 1..(Len(e) + 1)
    BY <1>2, <2>4
  <2>6. \A i \in 1..Len(e) : e[i].key # k
    BY <1>4, <1>6
  <2>7. \A i, j \in DOMAIN r : r[i].key = r[j].key => i = j
    <3> SUFFICES ASSUME NEW i \in 1..(Len(e) + 1), NEW j \in 1..(Len(e) + 1),
                        r[i].key = r[j].key
                 PROVE  i = j
      BY <2>5
    <3>1. CASE i \in 1..Len(e) /\ j \in 1..Len(e)
      BY <1>2, <2>4, <3>1
    <3>2. CASE i = Len(e) + 1 /\ j \in 1..Len(e)
      BY <1>3, <2>4, <2>6, <3>2
    <3>3. CASE i \in 1..Len(e) /\ j = Len(e) + 1
      BY <1>3, <2>4, <2>6, <3>3
    <3>4. CASE i = Len(e) + 1 /\ j = Len(e) + 1
      BY <3>4
    <3> QED BY <1>2, <3>1, <3>2, <3>3, <3>4
  <2>8. Len(r) \in 1..EnvSize /\ r[1].key = PS1
    BY <1>2, <1>6, <2>4
  <2>9. EnvOK(r)
    BY <2>4, <2>7, <2>8 DEF EnvOK
  <2> QED BY <2>9 DEF r
<1>7. CASE T = {} /\ ~(Len(e) < EnvSize)
  <2>1. r = e
    BY <1>7 DEF SetEnv
  <2> QED BY <2>1
<1> QED BY <1>5, <1>6, <1>7

-----------------------------------------------------------------------------
(* The working directory.                                                  *)

Rooted(p) == p \in Str /\ Len(p) > 0 /\ p[1] = Slash

\* The beginning of a string.
LEMMA Begin ==
  ASSUME NEW p \in Str, NEW n \in 1..Len(p)
  PROVE  /\ SubSeq(p, 1, n) \in Str /\ Len(SubSeq(p, 1, n)) = n
         /\ SubSeq(p, 1, n)[1] = p[1]
<1>1. 1 \in 1..(Len(p) + 1) /\ n \in 1 - 1..Len(p) /\ Len(p) \in Nat
  BY DEF Str
<1>2. /\ SubSeq(p, 1, n) \in Seq(Symbol) /\ Len(SubSeq(p, 1, n)) = (n - 1) + 1
      /\ \A i \in 1..((n - 1) + 1) : SubSeq(p, 1, n)[i] = p[(1 + i) - 1]
  BY <1>1, SubSeqProperties DEF Str
<1> QED BY <1>1, <1>2 DEF Str

\* What strncpy keeps of a path from the root is one.
LEMMA CutOK ==
  ASSUME NEW p, Rooted(p), NEW n \in Nat, n > 0
  PROVE  Rooted(Cut(p, n)) /\ Len(Cut(p, n)) <= n
<1> DEFINE m == IF Len(p) < n THEN Len(p) ELSE n
<1>1. Len(p) \in Nat /\ p \in Str /\ Len(p) > 0
  BY DEF Rooted, Str
<1>2. m \in 1..Len(p) /\ m <= n
  BY <1>1
<1>3. Cut(p, n) = SubSeq(p, 1, m)
  BY DEF Cut
<1> HIDE DEF m
<1> QED BY <1>1, <1>2, <1>3, Begin DEF Rooted

\* The root is one.
LEMMA RootOK == Rooted(<<"/">>)
<1>1. Slash \in Symbol
  BY SymbolAssumption
<1>2. <<Slash>> \in Str /\ Len(<<Slash>>) = 1 /\ <<Slash>>[1] = Slash
  BY <1>1 DEF Str
<1> QED BY <1>2 DEF Rooted, Slash

\* cd .. leads to one.
LEMMA UpOK ==
  ASSUME NEW p, Rooted(p), Len(p) > 1
  PROVE  Rooted(Up(p))
<1> DEFINE bare == IF Last(p) = "/" THEN Front(p) ELSE p
           I == {i \in 1..Len(bare) : bare[i] = "/"}
           slash == SelectLastInSeq(bare, LAMBDA c : c = "/")
<1>0. p \in Str /\ Len(p) \in Nat /\ p[1] = Slash
  BY DEF Rooted, Str
<1>1. bare \in Str /\ Len(bare) \in Nat /\ Len(bare) > 0 /\ bare[1] = Slash
  <2>1. Len(p) - 1 \in 1..Len(p) /\ Len(p) - 1 > 0
    BY <1>0
  <2>2. /\ Front(p) \in Str /\ Len(Front(p)) = Len(p) - 1
        /\ Front(p)[1] = p[1]
    BY <1>0, <2>1, Begin DEF Front
  <2> HIDE DEF Slash
  <2> QED BY <1>0, <2>1, <2>2
<1>2. Up(p) = IF slash <= 1 THEN <<"/">> ELSE SubSeq(bare, 1, slash - 1)
  BY DEF Up
<1> HIDE DEF bare
<1>3. slash = IF I # {} THEN Max(I) ELSE 0
  BY DEF SelectLastInSeq
<1>4. slash \in 0..Len(bare)
  <2>1. CASE I = {}
    BY <1>1, <1>3, <2>1
  <2>2. CASE I # {}
    <3>1. I \in SUBSET (0..Len(bare))
      BY <1>1
    <3> HIDE DEF I
    <3>2. \E x \in I : \A y \in I : y <= x
      BY <1>1, <2>2, <3>1, GreatestElement
    <3>3. \E x \in I : \A y \in I : x >= y
      BY <1>1, <3>1, <3>2
    <3>4. Max(I) \in I
      BY <3>3 DEF Max
    <3> QED BY <1>3, <2>2, <3>1, <3>4
  <2> QED BY <2>1, <2>2
<1> HIDE DEF slash
<1>5. CASE slash <= 1
  BY <1>2, <1>5, RootOK
<1>6. CASE ~(slash <= 1)
  <2>1. slash - 1 \in 1..Len(bare)
    BY <1>1, <1>4, <1>6
  <2>2. SubSeq(bare, 1, slash - 1) \in Str /\ Len(SubSeq(bare, 1, slash - 1)) = slash - 1
        /\ SubSeq(bare, 1, slash - 1)[1] = bare[1]
    BY <1>1, <2>1, Begin
  <2> QED BY <1>1, <1>2, <1>6, <2>1, <2>2 DEF Rooted
<1> QED BY <1>5, <1>6

\* A relative cd leads to one.
LEMMA JoinedOK ==
  ASSUME NEW p, Rooted(p), NEW arg \in Str
  PROVE  Rooted(Joined(p, arg))
<1> DEFINE sep == IF Last(p) = "/" THEN <<>> ELSE <<"/">>
<1>0. p \in Seq(Symbol) /\ arg \in Seq(Symbol) /\ Len(p) \in Nat /\ Len(p) > 0 /\ p[1] = Slash
  BY DEF Rooted, Str
<1>1. sep \in Seq(Symbol)
  <2>1. <<"/">> \in Seq(Symbol)
    BY RootOK DEF Rooted, Str
  <2> QED BY <2>1
<1>2. Joined(p, arg) = (p \o sep) \o arg
  BY DEF Joined
<1> HIDE DEF sep
<1>3. /\ p \o sep \in Seq(Symbol) /\ Len(p \o sep) = Len(p) + Len(sep)
      /\ \A i \in 1..(Len(p) + Len(sep)) :
           (p \o sep)[i] = IF i <= Len(p) THEN p[i] ELSE sep[i - Len(p)]
  BY <1>0, <1>1, ConcatProperties
<1>4. Len(sep) \in Nat /\ Len(arg) \in Nat
  BY <1>0, <1>1
<1> DEFINE q == p \o sep
<1>5. q \in Seq(Symbol) /\ Len(q) \in Nat /\ Len(q) > 0 /\ q[1] = Slash
  BY <1>0, <1>3, <1>4
<1> HIDE DEF q
<1>6. /\ q \o arg \in Seq(Symbol) /\ Len(q \o arg) = Len(q) + Len(arg)
      /\ \A i \in 1..(Len(q) + Len(arg)) :
           (q \o arg)[i] = IF i <= Len(q) THEN q[i] ELSE arg[i - Len(q)]
  BY <1>0, <1>5, ConcatProperties
<1>7. Len(q \o arg) > 0 /\ (q \o arg)[1] = Slash
  BY <1>4, <1>5, <1>6
<1> QED BY <1>2, <1>6, <1>7 DEF Rooted, Str, q

-----------------------------------------------------------------------------
(* The shell's invariant.                                                  *)

\* The environment is sound, and the working directory a path from the root
\* that fits its buffer.
ShellOK ==
  /\ EnvOK(envs)
  /\ Rooted(cwd) /\ Len(cwd) <= CwdMax

\* The constructor's state.
LEMMA StartOK == Init => ShellOK
<1> SUFFICES ASSUME Init PROVE ShellOK
  OBVIOUS
<1> DEFINE x == EnvVar(PS1, <<"PROMPT">>)
<1>1. envs = Append(<<>>, x)
  <2>1. KeyAt(<<>>, PS1) = {}
    BY DEF KeyAt
  <2>2. Len(<<>>) < EnvSize
    BY Sizes
  <2> QED BY <2>1, <2>2 DEF Init, SetEnv
<1>2. x.key = PS1
  BY EnvVarFields
<1> HIDE DEF x
<1>3. envs \in Seq({x}) /\ Len(envs) = 1 /\ envs[1] = x /\ DOMAIN envs = 1..1
  BY <1>1
<1>4. EnvOK(envs)
  <2>1. Len(envs) \in 1..EnvSize
    BY <1>3, Sizes
  <2>2. \A i, j \in DOMAIN envs : envs[i].key = envs[j].key => i = j
    BY <1>3
  <2> QED BY <1>2, <1>3, <2>1, <2>2 DEF EnvOK
<1>5. Rooted(cwd) /\ Len(cwd) <= CwdMax
  <2>1. cwd = <<"/">>
    BY DEF Init
  <2>2. Len(cwd) = 1
    BY <2>1
  <2> QED BY <2>1, <2>2, RootOK, Sizes
<1> QED BY <1>4, <1>5 DEF ShellOK

\* A step that touches neither the directory nor the environment.
LEMMA SameOK == ShellOK /\ UNCHANGED state => ShellOK'
  BY DEF ShellOK, state, EnvOK, Rooted

\* SetCWD keeps what fits the buffer of a path from the root.
LEMMA SetCWDOK ==
  ASSUME ShellOK, NEW p, Rooted(p), SetCWD(p)
  PROVE  ShellOK'
<1>1. cwd' = Cut(p, CwdMax) /\ envs' = SetEnv(envs, PWD, Cut(p, CwdMax))
  BY DEF SetCWD
<1>2. Rooted(cwd') /\ Len(cwd') <= CwdMax
  BY <1>1, CutOK, Sizes
<1>3. EnvOK(envs')
  BY <1>1, SetEnvOK DEF ShellOK
<1> QED BY <1>2, <1>3 DEF ShellOK, EnvOK, Rooted

\* cd, with every argument.
LEMMA CmdCdOK ==
  ASSUME ShellOK, NEW argv \in Seq(Str), CmdCd(argv)
  PROVE  ShellOK'
<1> DEFINE path == argv[2]
<1>0. Rooted(cwd)
  BY DEF ShellOK
<1>1. CASE Len(argv) < 2 /\ SetCWD(<<"/">>)
  BY <1>1, RootOK, SetCWDOK
<1>2. CASE Len(argv) >= 2 /\ UNCHANGED state
  BY <1>2, SameOK
<1>3. CASE Len(argv) >= 2 /\ Len(cwd) > 1 /\ SetCWD(Up(cwd))
  BY <1>0, <1>3, UpOK, SetCWDOK
<1>4. CASE Len(argv) >= 2 /\ Absolute(path) /\ SetCWD(path)
  <2>1. path \in Str
    BY <1>4
  <2>2. Len(path) > 0 /\ path[1] = Slash
    BY <1>4, <2>1 DEF Absolute, Slash, Str
  <2>3. Rooted(path)
    BY <2>1, <2>2 DEF Rooted
  <2> QED BY <1>4, <2>3, SetCWDOK
<1>5. CASE Len(argv) >= 2 /\ SetCWD(Joined(cwd, path))
  <2>1. path \in Str
    BY <1>5
  <2>2. Rooted(Joined(cwd, path))
    BY <1>0, <2>1, JoinedOK
  <2> QED BY <1>5, <2>2, SetCWDOK
<1> QED BY <1>1, <1>2, <1>3, <1>4, <1>5, Zenon DEF CmdCd

\* export, with every argument.
LEMMA CmdExportOK ==
  ASSUME ShellOK, NEW argv, CmdExport(argv)
  PROVE  ShellOK'
<1> DEFINE Sets == \E k, v : envs' = SetEnv(envs, k, v) /\ UNCHANGED cwd
<1>1. UNCHANGED state \/ Sets
  BY Zenon DEF CmdExport
<1>2. CASE UNCHANGED state
  BY <1>2, SameOK
<1>3. CASE Sets
  <2>1. PICK k, v : envs' = SetEnv(envs, k, v) /\ UNCHANGED cwd
    BY <1>3
  <2>2. EnvOK(envs')
    BY <2>1, SetEnvOK DEF ShellOK
  <2> QED BY <2>1, <2>2 DEF ShellOK, EnvOK, Rooted
<1> QED BY <1>1, <1>2, <1>3

\* A whole line, through the tokenizer and the registry.
LEMMA ExecuteOK ==
  ASSUME ShellOK, NEW line \in Str, Execute(line)
  PROVE  ShellOK'
<1> DEFINE argv == Tokenize(line)
<1>1. argv \in Seq(Str)
  BY TokenizeInBounds
<1>2. CmdCd(argv) \/ CmdExport(argv) \/ UNCHANGED state
  BY Zenon DEF Execute
<1> HIDE DEF argv
<1> QED BY <1>1, <1>2, CmdCdOK, CmdExportOK, SameOK

\* Whatever is typed, the working directory stays a path from the root and the
\* environment a table within its 16 entries, without a key twice and with the
\* prompt's template first (Execute, SetCWD, SetEnv).
THEOREM ShellInvHolds == Spec => []ShellInv
<1>1. Init => ShellOK
  BY StartOK
<1>2. ShellOK /\ [Next]_vars => ShellOK'
  <2> SUFFICES ASSUME ShellOK, [Next]_vars PROVE ShellOK'
    OBVIOUS
  <2>1. ASSUME NEW line \in Lines, Execute(line) PROVE ShellOK'
    <3>1. line \in Str
      BY Sizes
    <3> QED BY <2>1, <3>1, ExecuteOK
  <2>2. ASSUME NEW ws \in Commands, Execute(Typed(ws)) PROVE ShellOK'
    <3>1. Typed(ws) \in Str
      BY Sizes, TypedIsLine
    <3> QED BY <2>2, <3>1, ExecuteOK
  <2>3. CASE UNCHANGED vars
    <3>1. UNCHANGED state
      BY <2>3 DEF vars, state
    <3> QED BY <3>1, SameOK
  <2> QED BY <2>1, <2>2, <2>3, Zenon DEF Next
<1>3. ShellOK => ShellInv
  <2> SUFFICES ASSUME ShellOK PROVE ShellInv
    OBVIOUS
  <2>1. cwd # <<>> /\ cwd[1] = "/"
    BY DEF ShellOK, Rooted, Str, Slash
  <2> QED BY <2>1 DEF ShellOK, EnvOK, ShellInv
<1> QED BY <1>1, <1>2, <1>3, PTL DEF Spec

=============================================================================

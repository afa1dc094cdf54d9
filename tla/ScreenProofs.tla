---------------------------- MODULE ScreenProofs ----------------------------
(* The keyboard driver understands the keys, the display shows the cursor  *)
(* and the terminal that was chosen: proofs for Kbd, Console and Screen.   *)
EXTENDS Screen, SequenceTheorems, TLAPS

-----------------------------------------------------------------------------
(* The driver as a function of the bytes.                                  *)

DriverState(r, p, c, t, s) == [recv |-> r, press |-> p, caps |-> c, tty |-> t, seen |-> s]

Driver == DriverState(recv_state, press, caps_lock, curr_tty, seen)

Flagged(p, k, make) == IF make THEN p \cup {k} ELSE p \ {k}
Typing(s, t, ch)    == [s EXCEPT ![t] = Append(@, ch)]
FlagCodes           == {"36", "2A", "38", "1D"}
FlagOf(c)           == CASE c = "36" -> "RShift" [] c = "2A" -> "LShift"
                         [] c = "38" -> "LAlt"   [] c = "1D" -> "LCtrl"
LetterCodes         == {"1E", "1F", "01", "1C", "45"}
FCodes              == {"3B", "3C", "3D"}
CharBy(c, shift, capsOn) == IF capsOn THEN SwapCase(Char(c, shift)) ELSE Char(c, shift)
CharOf(c, p, capsOn)     == CharBy(c, Shifted(p), capsOn)

\* The driver's state after byte b: what handle_kbd does to the variables it owns and
\* to the characters given to tty_in.
AfterNormal(r, p, c, t, s, b) ==
    IF b.code \in FlagCodes
    THEN DriverState(r, Flagged(p, FlagOf(b.code), b.make), c, t, s)
    ELSE IF b.code = "3A" THEN DriverState(r, p, IF b.make THEN ~c ELSE c, t, s)
    ELSE IF b.code \in FCodes
    THEN DriverState(r, p, c, IF Control(p) THEN KEY_F[b.code] ELSE t, s)
    ELSE IF b.make THEN DriverState(r, p, c, t, Typing(s, t, CharOf(b.code, p, c)))
    ELSE DriverState(r, p, c, t, s)

AfterE0(r, p, c, t, s, b) ==
    IF b.code = "1D" THEN DriverState(r, Flagged(p, "RCtrl", b.make), c, t, s)
    ELSE IF b.code = "38" THEN DriverState(r, Flagged(p, "RAlt", b.make), c, t, s)
    ELSE DriverState(r, p, c, t, s)

AfterOf(r, p, c, t, s, b) ==
    IF b = KEY_E0 THEN DriverState("BEGIN_E0", p, c, t, s)
    ELSE IF b = KEY_E1 THEN DriverState("BEGIN_E1", p, c, t, s)
    ELSE IF r = "NORMAL" THEN AfterNormal("NORMAL", p, c, t, s, b)
    ELSE IF r = "BEGIN_E0" THEN AfterE0("NORMAL", p, c, t, s, b)
    ELSE DriverState("NORMAL", p, c, t, s)

After(d, b) == AfterOf(d.recv, d.press, d.caps, d.tty, d.seen, b)

\* The bytes w take the driver from state a to state e.
Run(r, a, w, e) ==
    /\ r[0] = a /\ r[Len(w)] = e
    /\ \A j \in 1 .. Len(w) : r[j] = After(r[j - 1], w[j])

Takes(a, w, e) == \E r : Run(r, a, w, e)

IsSeq(q) == \E S : q \in Seq(S)

LEMMA AppendIsSeq ==
    ASSUME NEW q, IsSeq(q), NEW x
    PROVE  /\ IsSeq(Append(q, x)) /\ Len(q) \in Nat
           /\ Len(Append(q, x)) = Len(q) + 1
           /\ \A j \in 1 .. Len(q) : Append(q, x)[j] = q[j]
           /\ Append(q, x)[Len(q) + 1] = x
<1>1. PICK S : q \in Seq(S)
  BY DEF IsSeq
<1>2. PICK T : T = S \cup {x}
  OBVIOUS
<1>3. q \in Seq(T) /\ x \in T
  BY <1>1, <1>2
<1> HIDE <1>2
<1>4. Append(q, x) \in Seq(T)
  BY ONLY <1>3
<1> QED BY ONLY <1>3, <1>4 DEF IsSeq

LEMMA TailIsSeq ==
    ASSUME NEW q, IsSeq(q), q # <<>>
    PROVE  /\ IsSeq(Tail(q)) /\ Len(q) \in Nat /\ Len(q) > 0
           /\ Len(Tail(q)) = Len(q) - 1 /\ Head(q) = q[1]
           /\ \A j \in 1 .. Len(q) - 1 : Tail(q)[j] = q[j + 1]
<1>1. PICK S : q \in Seq(S)
  BY DEF IsSeq
<1> QED BY ONLY <1>1, q # <<>> DEF IsSeq

LEMMA EmptyIsSeq == IsSeq(<<>>) /\ Len(<<>>) = 0
<1>1. <<>> \in Seq({})
  OBVIOUS
<1> QED BY <1>1 DEF IsSeq

LEMMA LenNotZero == ASSUME NEW q, IsSeq(q), q # <<>> PROVE Len(q) \in Nat /\ Len(q) # 0
BY DEF IsSeq

LEMMA TakesNothing ==
    ASSUME NEW a, NEW e PROVE Takes(a, <<>>, a) /\ (Takes(a, <<>>, e) => a = e)
<1>1. Len(<<>>) = 0 /\ 1 .. Len(<<>>) = {}
  OBVIOUS
<1>2. Run([j \in {0} |-> a], a, <<>>, a)
  BY <1>1 DEF Run
<1> QED BY <1>1, <1>2 DEF Takes, Run

LEMMA TakesOneMore ==
    ASSUME NEW a, NEW w, NEW e, NEW b, IsSeq(w), Takes(a, w, e)
    PROVE  Takes(a, Append(w, b), After(e, b))
<1>1. PICK r : Run(r, a, w, e)
  BY DEF Takes
<1>2. PICK n : n = Len(w)
  OBVIOUS
<1>3. PICK v : v = Append(w, b)
  OBVIOUS
<1>4. /\ n \in Nat /\ Len(v) = n + 1
      /\ \A j \in 1 .. n : v[j] = w[j]
      /\ v[n + 1] = b
  BY AppendIsSeq, <1>2, <1>3
<1>5. PICK x : x = After(e, b)
  OBVIOUS
<1>6. PICK q : q = [j \in 0 .. n + 1 |-> IF j = n + 1 THEN x ELSE r[j]]
  OBVIOUS
<1>7. r[0] = a /\ r[n] = e /\ \A j \in 1 .. n : r[j] = After(r[j - 1], w[j])
  BY <1>1, <1>2 DEF Run
<1>8. q[0] = a /\ q[n + 1] = x
  BY ONLY <1>4, <1>6, <1>7
<1>9. \A j \in 1 .. n + 1 : q[j] = After(q[j - 1], v[j])
  <2> SUFFICES ASSUME NEW j \in 1 .. n + 1 PROVE q[j] = After(q[j - 1], v[j])
    OBVIOUS
  <2>1. CASE j = n + 1
    <3>1. q[j] = x /\ q[j - 1] = e /\ v[j] = b
      BY ONLY <1>4, <1>6, <1>7, <2>1
    <3> QED BY ONLY <1>5, <3>1
  <2>2. CASE j # n + 1
    <3>1. q[j] = r[j] /\ q[j - 1] = r[j - 1] /\ v[j] = w[j] /\ j \in 1 .. n
      BY ONLY <1>4, <1>6, <2>2, j \in 1 .. n + 1
    <3> QED BY ONLY <1>7, <3>1
  <2> QED BY <2>1, <2>2
<1>10. Run(q, a, v, x)
  BY ONLY <1>4, <1>8, <1>9 DEF Run
<1> QED BY <1>3, <1>5, <1>10 DEF Takes

LEMMA TakesOneLess ==
    ASSUME NEW a, NEW w, NEW e, IsSeq(w), w # <<>>, Takes(a, w, e)
    PROVE  Takes(After(a, Head(w)), Tail(w), e)
<1>1. PICK r : Run(r, a, w, e)
  BY DEF Takes
<1>2. PICK n : n = Len(w)
  OBVIOUS
<1>3. PICK v : v = Tail(w)
  OBVIOUS
<1>4. /\ n \in Nat /\ n > 0 /\ Len(v) = n - 1 /\ Head(w) = w[1]
      /\ \A j \in 1 .. n - 1 : v[j] = w[j + 1]
  BY TailIsSeq, <1>2, <1>3
<1>5. PICK q : q = [j \in 0 .. n - 1 |-> r[j + 1]]
  OBVIOUS
<1>7. r[0] = a /\ r[n] = e /\ \A j \in 1 .. n : r[j] = After(r[j - 1], w[j])
  BY <1>1, <1>2 DEF Run
<1>8. q[0] = r[1] /\ q[n - 1] = r[n] /\ r[1] = After(r[0], w[1])
  <2>1. q[0] = r[1] /\ q[n - 1] = r[n]
    BY ONLY <1>4, <1>5
  <2>2. r[1] = After(r[1 - 1], w[1]) /\ 1 - 1 = 0
    BY ONLY <1>4, <1>7
  <2> QED BY ONLY <2>1, <2>2
<1>9. \A j \in 1 .. n - 1 : q[j] = After(q[j - 1], v[j])
  <2> SUFFICES ASSUME NEW j \in 1 .. n - 1 PROVE q[j] = After(q[j - 1], v[j])
    OBVIOUS
  <2>1. PICK m : m = j + 1
    OBVIOUS
  <2>2. m \in 1 .. n /\ q[j] = r[m] /\ q[j - 1] = r[m - 1] /\ v[j] = w[m]
    <3>1. q[j - 1] = r[j - 1 + 1] /\ j - 1 + 1 = m - 1
      BY ONLY <1>4, <1>5, <2>1, j \in 1 .. n - 1
    <3> QED BY ONLY <1>4, <1>5, <2>1, <3>1, j \in 1 .. n - 1
  <2> QED BY ONLY <1>7, <2>2
<1>10. Run(q, r[1], v, e)
  BY ONLY <1>4, <1>7, <1>8, <1>9 DEF Run
<1> QED BY <1>3, <1>4, <1>7, <1>8, <1>10 DEF Takes

-----------------------------------------------------------------------------
(* handle_kbd is After.                                                    *)

LEMMA InterruptStep ==
    ASSUME handle_kbd
    PROVE  /\ wire # <<>> /\ wire' = Tail(wire)
           /\ UNCHANGED <<held, caps, chosen, text, misled, events>>
           /\ Driver' = After(Driver, Head(wire))
<1>1. PICK b : b = Head(wire)
  OBVIOUS
<1>2. /\ wire # <<>> /\ wire' = Tail(wire)
      /\ UNCHANGED <<held, caps, chosen, text, misled, events>>
  BY DEF handle_kbd
<1>3. /\ Driver.recv = recv_state /\ Driver.press = press /\ Driver.caps = caps_lock
      /\ Driver.tty = curr_tty /\ Driver.seen = seen
      /\ Driver' = DriverState(recv_state', press', caps_lock', curr_tty', seen')
  BY DEF Driver, DriverState
<1>4. SUFFICES DriverState(recv_state', press', caps_lock', curr_tty', seen')
                  = AfterOf(recv_state, press, caps_lock, curr_tty, seen, b)
  BY <1>1, <1>2, <1>3 DEF After
<1>5. CASE b \in {KEY_E0, KEY_E1}
  BY <1>1, <1>5 DEF handle_kbd, AfterOf, ttyVars
<1>6. CASE b \notin {KEY_E0, KEY_E1}
  <2>1. /\ recv_state' = "NORMAL"
        /\ \/ recv_state = "NORMAL" /\ do_normal_key(b)
           \/ recv_state = "BEGIN_E0" /\ do_e0_key(b)
           \/ recv_state = "BEGIN_E1" /\ UNCHANGED <<press, caps_lock, curr_tty, ttyVars>>
    BY <1>1, <1>6 DEF handle_kbd
  <2>2. CASE recv_state = "NORMAL" /\ do_normal_key(b)
    <3>1. SUFFICES DriverState("NORMAL", press', caps_lock', curr_tty', seen')
                     = AfterNormal("NORMAL", press, caps_lock, curr_tty, seen, b)
      BY <1>6, <2>1, <2>2 DEF AfterOf
    <3>2. CASE /\ b.code \in FlagCodes
               /\ press' = Flagged(press, FlagOf(b.code), b.make)
               /\ UNCHANGED <<caps_lock, curr_tty, ttyVars>>
      BY <3>2 DEF AfterNormal, ttyVars
    <3>3. CASE /\ b.code = "3A"
               /\ caps_lock' = IF b.make THEN ~caps_lock ELSE caps_lock
               /\ UNCHANGED <<press, curr_tty, ttyVars>>
      BY <3>3 DEF AfterNormal, ttyVars, FlagCodes
    <3>4. CASE /\ b.code \in FCodes
               /\ do_fx_key(KEY_F[b.code])
               /\ UNCHANGED <<press, caps_lock, ttyVars>>
      <4>1. curr_tty' = IF Control(press) THEN KEY_F[b.code] ELSE curr_tty
        BY <3>4 DEF do_fx_key, tty_select
      <4>2. b.code \notin FlagCodes /\ b.code # "3A" /\ b.code \in FCodes
        BY <3>4 DEF FlagCodes, FCodes
      <4> QED BY <3>4, <4>1, <4>2 DEF AfterNormal, ttyVars
    <3>5. CASE /\ b.code \notin FlagCodes \cup FCodes \cup {"3A"}
               /\ IF b.make THEN tty_in(KeyChar(b.code)) ELSE UNCHANGED ttyVars
               /\ UNCHANGED <<press, caps_lock, curr_tty>>
      <4>1. CASE b.make
        <5>1. seen' = Typing(seen, curr_tty, CharOf(b.code, press, caps_lock))
          BY <3>5, <4>1 DEF tty_in, Typing, KeyChar, CharOf, CharBy
        <5> QED BY <3>5, <4>1, <5>1 DEF AfterNormal
      <4>2. CASE ~b.make
        BY <3>5, <4>2 DEF AfterNormal, ttyVars
      <4> QED BY <4>1, <4>2
    <3>6. DOMAIN KEY_F = FCodes
      BY DEF KEY_F, FCodes
    <3>7. \A c \in FlagCodes :
            [d \in {"36", "2A", "38", "1D"} |->
                     CASE d = "36" -> "RShift" [] d = "2A" -> "LShift"
                       [] d = "38" -> "LAlt"   [] d = "1D" -> "LCtrl"][c] = FlagOf(c)
      BY DEF FlagCodes, FlagOf
    <3> QED
      BY <2>2, <3>2, <3>3, <3>4, <3>5, <3>6, <3>7
      DEF do_normal_key, Flag, Flagged, FlagCodes
  <2>3. CASE recv_state = "BEGIN_E0" /\ do_e0_key(b)
    <3>1. SUFFICES DriverState("NORMAL", press', caps_lock', curr_tty', seen')
                     = AfterE0("NORMAL", press, caps_lock, curr_tty, seen, b)
      BY <1>6, <2>1, <2>3 DEF AfterOf
    <3>2. UNCHANGED <<caps_lock, curr_tty, seen>>
      BY <2>3 DEF do_e0_key, ttyVars
    <3>3. CASE b.code = "1D"
      <4>1. press' = Flagged(press, "RCtrl", b.make)
        BY <2>3, <3>3 DEF do_e0_key, Flag, Flagged
      <4> QED BY <3>2, <3>3, <4>1 DEF AfterE0
    <3>4. CASE b.code = "38"
      <4>1. press' = Flagged(press, "RAlt", b.make)
        BY <2>3, <3>4 DEF do_e0_key, Flag, Flagged
      <4> QED BY <3>2, <3>4, <4>1 DEF AfterE0
    <3>5. CASE b.code \notin {"1D", "38"}
      <4>1. press' = press
        BY <2>3, <3>5 DEF do_e0_key
      <4> QED BY <3>2, <3>5, <4>1 DEF AfterE0
    <3> QED BY <3>3, <3>4, <3>5
  <2>4. CASE recv_state = "BEGIN_E1" /\ UNCHANGED <<press, caps_lock, curr_tty, ttyVars>>
    BY <1>6, <2>1, <2>4 DEF AfterOf, ttyVars
  <2> QED BY <2>1, <2>2, <2>3, <2>4
<1> QED BY <1>5, <1>6

-----------------------------------------------------------------------------
(* What the bytes of a key do.                                             *)

LEMMA Concat ==
    ASSUME NEW w, IsSeq(w), NEW a, NEW b, NEW c, NEW d, NEW e, NEW f
    PROVE  /\ w \o <<>> = w
           /\ w \o <<a>> = Append(w, a)
           /\ w \o <<a, b>> = Append(Append(w, a), b)
           /\ w \o <<a, b, c, d>> = Append(Append(Append(Append(w, a), b), c), d)
           /\ w \o <<a, b, c, d, e, f>> =
                Append(Append(Append(Append(Append(Append(w, a), b), c), d), e), f)
<1>1. PICK S : w \in Seq(S)
  BY DEF IsSeq
<1>2. PICK T : T = S \cup {a, b, c, d, e, f}
  OBVIOUS
<1>3. w \in Seq(T) /\ a \in T /\ b \in T /\ c \in T /\ d \in T /\ e \in T /\ f \in T
  BY <1>1, <1>2
<1>4. \A v \in Seq(T) : \A q \in Seq(T) : \A x \in T : v \o Append(q, x) = Append(v \o q, x)
  OBVIOUS
<1>5. /\ <<a>> = Append(<<>>, a) /\ <<>> \in Seq(T) /\ <<a>> \in Seq(T)
      /\ w \o <<>> = w
  BY ONLY <1>3
<1>6. <<a, b>> = Append(<<a>>, b) /\ <<a, b>> \in Seq(T)
  BY ONLY <1>3
<1>7. <<a, b, c>> = Append(<<a, b>>, c) /\ <<a, b, c>> \in Seq(T)
  BY ONLY <1>3
<1>8. <<a, b, c, d>> = Append(<<a, b, c>>, d) /\ <<a, b, c, d>> \in Seq(T)
  BY ONLY <1>3
<1>9. <<a, b, c, d, e>> = Append(<<a, b, c, d>>, e) /\ <<a, b, c, d, e>> \in Seq(T)
  BY ONLY <1>3
<1>10. <<a, b, c, d, e, f>> = Append(<<a, b, c, d, e>>, f) /\ <<a, b, c, d, e, f>> \in Seq(T)
  BY ONLY <1>3
<1>11. w \o <<a>> = Append(w, a)
  BY ONLY <1>3, <1>4, <1>5
<1>12. w \o <<a, b>> = Append(Append(w, a), b)
  BY ONLY <1>3, <1>4, <1>5, <1>6, <1>11
<1>13. w \o <<a, b, c>> = Append(w \o <<a, b>>, c)
  BY ONLY <1>3, <1>4, <1>6, <1>7
<1>14. w \o <<a, b, c, d>> = Append(w \o <<a, b, c>>, d)
  BY ONLY <1>3, <1>4, <1>7, <1>8
<1>15. w \o <<a, b, c, d, e>> = Append(w \o <<a, b, c, d>>, e)
  BY ONLY <1>3, <1>4, <1>8, <1>9
<1>16. w \o <<a, b, c, d, e, f>> = Append(w \o <<a, b, c, d, e>>, f)
  BY ONLY <1>3, <1>4, <1>9, <1>10
<1> QED BY ONLY <1>5, <1>11, <1>12, <1>13, <1>14, <1>15, <1>16

LEMMA TakesMore ==
    ASSUME NEW x, NEW w, NEW z, IsSeq(w), Takes(x, w, z),
           NEW a, NEW b, NEW c, NEW d, NEW e, NEW f
    PROVE  /\ Takes(x, w \o <<>>, z)
           /\ Takes(x, w \o <<a>>, After(z, a))
           /\ Takes(x, w \o <<a, b>>, After(After(z, a), b))
           /\ Takes(x, w \o <<a, b, c, d>>, After(After(After(After(z, a), b), c), d))
           /\ Takes(x, w \o <<a, b, c, d, e, f>>,
                    After(After(After(After(After(After(z, a), b), c), d), e), f))
           /\ IsSeq(w \o <<>>) /\ IsSeq(w \o <<a>>) /\ IsSeq(w \o <<a, b>>)
           /\ IsSeq(w \o <<a, b, c, d>>) /\ IsSeq(w \o <<a, b, c, d, e, f>>)
<1>1. PICK w1 : w1 = Append(w, a)
  OBVIOUS
<1>2. PICK w2 : w2 = Append(w1, b)
  OBVIOUS
<1>3. PICK w3 : w3 = Append(w2, c)
  OBVIOUS
<1>4. PICK w4 : w4 = Append(w3, d)
  OBVIOUS
<1>5. PICK w5 : w5 = Append(w4, e)
  OBVIOUS
<1>6. PICK w6 : w6 = Append(w5, f)
  OBVIOUS
<1>7. IsSeq(w1) /\ IsSeq(w2) /\ IsSeq(w3) /\ IsSeq(w4) /\ IsSeq(w5) /\ IsSeq(w6)
  BY ONLY IsSeq(w), <1>1, <1>2, <1>3, <1>4, <1>5, <1>6, AppendIsSeq
<1>8. PICK z1 : z1 = After(z, a)
  OBVIOUS
<1>9. PICK z2 : z2 = After(z1, b)
  OBVIOUS
<1>10. PICK z3 : z3 = After(z2, c)
  OBVIOUS
<1>11. PICK z4 : z4 = After(z3, d)
  OBVIOUS
<1>12. PICK z5 : z5 = After(z4, e)
  OBVIOUS
<1>13. PICK z6 : z6 = After(z5, f)
  OBVIOUS
<1>14. Takes(x, w1, z1)
  BY ONLY IsSeq(w), Takes(x, w, z), <1>1, <1>8, TakesOneMore
<1>15. Takes(x, w2, z2)
  BY ONLY <1>7, <1>14, <1>2, <1>9, TakesOneMore
<1>16. Takes(x, w3, z3)
  BY ONLY <1>7, <1>15, <1>3, <1>10, TakesOneMore
<1>17. Takes(x, w4, z4)
  BY ONLY <1>7, <1>16, <1>4, <1>11, TakesOneMore
<1>18. Takes(x, w5, z5)
  BY ONLY <1>7, <1>17, <1>5, <1>12, TakesOneMore
<1>19. Takes(x, w6, z6)
  BY ONLY <1>7, <1>18, <1>6, <1>13, TakesOneMore
<1>20. /\ w \o <<>> = w /\ w \o <<a>> = w1 /\ w \o <<a, b>> = w2
       /\ w \o <<a, b, c, d>> = w4 /\ w \o <<a, b, c, d, e, f>> = w6
  BY ONLY SMTT(40), IsSeq(w), <1>1, <1>2, <1>3, <1>4, <1>5, <1>6, Concat
<1> QED
  BY ONLY IsSeq(w), Takes(x, w, z), <1>7, <1>8, <1>9, <1>10, <1>11, <1>12, <1>13, <1>14, <1>15,
          <1>17, <1>19, <1>20

LEMMA AfterByte ==
    ASSUME NEW r, NEW p, NEW c, NEW t, NEW s, NEW b
    PROVE  After(DriverState(r, p, c, t, s), b) = AfterOf(r, p, c, t, s, b)
BY DEF After, DriverState

LEMMA AfterEscape ==
    ASSUME NEW r, NEW p, NEW c, NEW t, NEW s
    PROVE  /\ After(DriverState(r, p, c, t, s), KEY_E0) = DriverState("BEGIN_E0", p, c, t, s)
           /\ After(DriverState(r, p, c, t, s), KEY_E1) = DriverState("BEGIN_E1", p, c, t, s)
<1>1. KEY_E0 # KEY_E1
  BY DEF KEY_E0, KEY_E1, Break
<1> QED BY <1>1, AfterByte DEF AfterOf

LEMMA AfterCode ==
    ASSUME NEW p, NEW c, NEW t, NEW s, NEW code, code \notin {"60", "61"}, NEW b,
           b \in {Make(code), Break(code)}
    PROVE  /\ After(DriverState("NORMAL", p, c, t, s), b)
                = AfterNormal("NORMAL", p, c, t, s, b)
           /\ After(DriverState("BEGIN_E0", p, c, t, s), b)
                = AfterE0("NORMAL", p, c, t, s, b)
           /\ After(DriverState("BEGIN_E1", p, c, t, s), b)
                = DriverState("NORMAL", p, c, t, s)
<1>1. b.code = code
  BY DEF Make, Break
<1>2. b # KEY_E0 /\ b # KEY_E1
  BY <1>1 DEF KEY_E0, KEY_E1, Break
<1> QED BY <1>2, AfterByte DEF AfterOf

LEMMA CodeOf ==
    ASSUME NEW code
    PROVE  /\ Make(code).code = code /\ Make(code).make
           /\ Break(code).code = code /\ ~Break(code).make
BY DEF Make, Break

\* Codes of the keys that send one byte or E0 and one byte.
LEMMA Codes ==
    /\ Code["LShift"] = "2A" /\ Code["RShift"] = "36" /\ Code["LCtrl"] = "1D"
    /\ Code["RCtrl"] = "1D" /\ Code["LAlt"] = "38" /\ Code["RAlt"] = "38" /\ Code["Caps"] = "3A"
    /\ Code["F1"] = "3B" /\ Code["F2"] = "3C" /\ Code["F3"] = "3D" /\ Code["A"] = "1E"
    /\ Code["S"] = "1F" /\ Code["Esc"] = "01" /\ Code["Enter"] = "1C" /\ Code["Up"] = "48"
BY DEF Code

\* A flag's key sends a code that do_normal_key or, after E0, do_e0_key has the flag for.
LEMMA AfterModifier ==
    ASSUME NEW k \in Modifiers, NEW p, NEW c, NEW t, NEW s, NEW b,
           b \in {Make(Code[k]), Break(Code[k])}
    PROVE  /\ k \notin Extended =>
                After(DriverState("NORMAL", p, c, t, s), b)
                  = DriverState("NORMAL", Flagged(p, k, b.make), c, t, s)
           /\ k \in Extended =>
                After(After(DriverState("NORMAL", p, c, t, s), KEY_E0), b)
                  = DriverState("NORMAL", Flagged(p, k, b.make), c, t, s)
<1>1. PICK code : code = Code[k]
  OBVIOUS
<1>2. /\ k \notin Extended => code \in FlagCodes /\ FlagOf(code) = k
      /\ k \in Extended => (k = "RCtrl" /\ code = "1D") \/ (k = "RAlt" /\ code = "38")
      /\ code \notin {"60", "61"}
  BY <1>1, Codes DEF Modifiers, Extended, FlagCodes, FlagOf
<1>3. b.code = code
  BY <1>1, CodeOf
<1>6. /\ After(DriverState("NORMAL", p, c, t, s), b) = AfterNormal("NORMAL", p, c, t, s, b)
      /\ After(DriverState("BEGIN_E0", p, c, t, s), b) = AfterE0("NORMAL", p, c, t, s, b)
  BY ONLY <1>1, <1>2, AfterCode, b \in {Make(Code[k]), Break(Code[k])}
<1>4. CASE k \notin Extended
  BY <1>2, <1>3, <1>6, <1>4 DEF AfterNormal
<1>5. CASE k \in Extended
  BY <1>2, <1>3, <1>6, <1>5, AfterEscape DEF AfterE0
<1> QED BY <1>4, <1>5

\* The keys that type a character.
LEMMA AfterLetter ==
    ASSUME NEW p, NEW c, NEW t, NEW s, NEW code \in LetterCodes
    PROVE  /\ After(DriverState("NORMAL", p, c, t, s), Make(code))
                = DriverState("NORMAL", p, c, t, Typing(s, t, CharOf(code, p, c)))
           /\ After(DriverState("NORMAL", p, c, t, s), Break(code))
                = DriverState("NORMAL", p, c, t, s)
<1>1. /\ code \notin {"60", "61"} /\ code \notin FlagCodes /\ code # "3A"
      /\ code \notin FCodes
  BY DEF LetterCodes, FlagCodes, FCodes
<1>2. PICK a : a = Make(code)
  OBVIOUS
<1>3. PICK b : b = Break(code)
  OBVIOUS
<1>7. a.code = code /\ a.make /\ b.code = code /\ ~b.make
  BY <1>2, <1>3, CodeOf
<1>4. After(DriverState("NORMAL", p, c, t, s), a) = AfterNormal("NORMAL", p, c, t, s, a)
  BY <1>1, <1>2, AfterCode
<1>5. After(DriverState("NORMAL", p, c, t, s), b) = AfterNormal("NORMAL", p, c, t, s, b)
  BY ONLY <1>1, <1>3, AfterCode, b \in {Make(code), Break(code)}
<1> QED BY <1>1, <1>2, <1>3, <1>7, <1>4, <1>5 DEF AfterNormal

\* A function key chooses a terminal with Ctrl, down and up.
LEMMA AfterFunction ==
    ASSUME NEW k \in FKeys, NEW p, NEW c, NEW t, NEW s, NEW b,
           b \in {Make(Code[k]), Break(Code[k])}
    PROVE  After(DriverState("NORMAL", p, c, t, s), b)
             = DriverState("NORMAL", p, c, IF Control(p) THEN FNumber(k) ELSE t, s)
<1>1. PICK code : code = Code[k]
  OBVIOUS
<1>2. /\ code \in FCodes /\ code \notin FlagCodes /\ code # "3A" /\ code \notin {"60", "61"}
      /\ KEY_F[code] = FNumber(k)
  BY <1>1, Codes DEF FKeys, FCodes, FlagCodes, FNumber, KEY_F
<1>3. b.code = code
  BY <1>1, CodeOf
<1>6. /\ After(DriverState("NORMAL", p, c, t, s), b) = AfterNormal("NORMAL", p, c, t, s, b)
  BY <1>1, <1>2, AfterCode
<1> QED BY <1>2, <1>3, <1>6 DEF AfterNormal

LEMMA AfterCaps ==
    ASSUME NEW p, NEW t, NEW s
    PROVE  /\ After(DriverState("NORMAL", p, FALSE, t, s), Make("3A"))
                = DriverState("NORMAL", p, TRUE, t, s)
           /\ After(DriverState("NORMAL", p, TRUE, t, s), Make("3A"))
                = DriverState("NORMAL", p, FALSE, t, s)
<1>1. PICK code : code = "3A"
  OBVIOUS
<1>2. PICK a : a = Make(code)
  OBVIOUS
<1>3. a.code = code /\ a.make
  BY <1>2, CodeOf
<1>4. \A d : After(DriverState("NORMAL", p, d, t, s), a) = AfterNormal("NORMAL", p, d, t, s, a)
  BY <1>1, <1>2, AfterCode
<1>5. AfterNormal("NORMAL", p, FALSE, t, s, a) = DriverState("NORMAL", p, TRUE, t, s)
  BY <1>1, <1>3 DEF AfterNormal, FlagCodes
<1>6. AfterNormal("NORMAL", p, TRUE, t, s, a) = DriverState("NORMAL", p, FALSE, t, s)
  BY <1>1, <1>3 DEF AfterNormal, FlagCodes
<1> QED BY ONLY <1>1, <1>2, <1>4, <1>5, <1>6

LEMMA AfterCapsUp ==
    ASSUME NEW p, NEW c, NEW t, NEW s
    PROVE  After(DriverState("NORMAL", p, c, t, s), Break("3A"))
                = DriverState("NORMAL", p, c, t, s)
<1>1. PICK code : code = "3A"
  OBVIOUS
<1>2. PICK b : b = Break(code)
  OBVIOUS
<1>3. b.code = code /\ ~b.make
  BY <1>2, CodeOf
<1>4. After(DriverState("NORMAL", p, c, t, s), b) = AfterNormal("NORMAL", p, c, t, s, b)
  BY ONLY <1>1, <1>2, AfterCode, b \in {Make(code), Break(code)}
<1>5. AfterNormal("NORMAL", p, c, t, s, b) = DriverState("NORMAL", p, c, t, s)
  BY <1>1, <1>3 DEF AfterNormal, FlagCodes
<1> QED BY ONLY <1>1, <1>2, <1>4, <1>5

\* After E0 every other code is ignored, and after E1 every code.
LEMMA AfterIgnored ==
    ASSUME NEW p, NEW c, NEW t, NEW s, NEW code \in {"48", "2A", "37", "1D"}, NEW b,
           b \in {Make(code), Break(code)}, NEW d, d = DriverState("NORMAL", p, c, t, s)
    PROVE  /\ code # "1D" => After(After(d, KEY_E0), b) = d
           /\ After(After(d, KEY_E1), b) = d
<1>1. code \notin {"60", "61"} /\ code # "38"
  OBVIOUS
<1>3. b.code = code
  BY CodeOf
<1>4. After(DriverState("BEGIN_E0", p, c, t, s), b) = AfterE0("NORMAL", p, c, t, s, b)
  BY ONLY SMTT(40), <1>1, AfterCode, b \in {Make(code), Break(code)}
<1>2. After(DriverState("BEGIN_E1", p, c, t, s), b) = DriverState("NORMAL", p, c, t, s)
  BY ONLY SMTT(40), <1>1, AfterCode, b \in {Make(code), Break(code)}
<1> QED BY <1>1, <1>2, <1>3, <1>4, AfterEscape DEF AfterE0

-----------------------------------------------------------------------------
(* What the driver gives for the keys typed.                               *)

Entries == [key : TypingKeys, shift : BOOLEAN, caps : BOOLEAN]

CodeTyped(k) == IF k = "Pause" THEN "45" ELSE Code[k]
Got(e)       == CharBy(CodeTyped(e.key), e.shift, e.caps)
GotFor(q)    == [j \in 1 .. Len(q) |-> Got(q[j])]
GotBy(t)     == [i \in DOMAIN t |-> GotFor(t[i])]

LEMMA GotForAppend ==
    ASSUME NEW q \in Seq(Entries), NEW e \in Entries
    PROVE  GotFor(Append(q, e)) = Append(GotFor(q), Got(e))
<1>1. PICK n : n = Len(q) /\ n \in Nat
  OBVIOUS
<1>2. PICK w : w = Append(q, e)
  OBVIOUS
<1>3. Len(w) = n + 1 /\ w[n + 1] = e /\ \A j \in 1 .. n : w[j] = q[j]
  BY <1>1, <1>2
<1>4. PICK G : G = {Got(f) : f \in Entries}
  OBVIOUS
<1>5. PICK u : u = GotFor(q)
  OBVIOUS
<1>6. u = [j \in 1 .. n |-> Got(q[j])]
  BY <1>1, <1>5 DEF GotFor
<1>7. u \in Seq(G) /\ Len(u) = n
  <2>1. \A j \in 1 .. n : q[j] \in Entries
    BY <1>1
  <2>2. \A j \in 1 .. n : Got(q[j]) \in G
    BY ONLY <2>1, <1>4
  <2>3. u \in [1 .. n -> G]
    BY ONLY <1>6, <2>2
  <2> QED BY ONLY <1>1, <2>3
<1>8. PICK g : g = Got(e)
  OBVIOUS
<1>9. g \in G
  BY ONLY <1>4, <1>8, e \in Entries
<1>10. PICK v : v = Append(u, g)
  OBVIOUS
<1>11. DOMAIN v = 1 .. n + 1 /\ v[n + 1] = g /\ \A j \in 1 .. n : v[j] = u[j]
  BY ONLY <1>1, <1>7, <1>9, <1>10
<1>12. v = [j \in 1 .. n + 1 |-> Got(w[j])]
  <2>1. v = [j \in 1 .. n + 1 |-> v[j]]
    <3>1. v \in Seq(G) /\ Len(v) = n + 1
      BY ONLY <1>1, <1>7, <1>9, <1>10
    <3>2. v \in [1 .. n + 1 -> G]
      BY ONLY <1>1, <3>1
    <3> QED BY ONLY <3>2
  <2>2. ASSUME NEW j \in 1 .. n + 1 PROVE v[j] = Got(w[j])
    <3>1. CASE j = n + 1
      BY ONLY <1>3, <1>8, <1>11, <3>1
    <3>2. CASE j # n + 1
      <4>1. j \in 1 .. n
        BY ONLY <1>1, <3>2, j \in 1 .. n + 1
      <4>2. u[j] = Got(q[j])
        BY ONLY <1>6, <4>1
      <4> QED BY ONLY <1>3, <1>11, <4>1, <4>2
    <3> QED BY <3>1, <3>2
  <2> QED BY ONLY <2>1, <2>2
<1>13. GotFor(w) = v
  BY ONLY <1>3, <1>12 DEF GotFor
<1> QED BY ONLY <1>2, <1>5, <1>8, <1>10, <1>13

LEMMA GotByTyping ==
    ASSUME NEW t \in [Ttys -> Seq(Entries)], NEW i \in Ttys, NEW e \in Entries
    PROVE  GotBy([t EXCEPT ![i] = Append(@, e)]) = Typing(GotBy(t), i, Got(e))
<1>1. PICK v : v = [t EXCEPT ![i] = Append(@, e)]
  OBVIOUS
<1>2. DOMAIN v = Ttys /\ v[i] = Append(t[i], e) /\ \A j \in Ttys \ {i} : v[j] = t[j]
  BY <1>1
<1>3. PICK u : u = GotBy(t)
  OBVIOUS
<1>4. u = [j \in Ttys |-> GotFor(t[j])]
  BY <1>3 DEF GotBy
<1>5. GotFor(v[i]) = Append(u[i], Got(e))
  <2>1. t[i] \in Seq(Entries)
    OBVIOUS
  <2>2. u[i] = GotFor(t[i])
    BY <1>4
  <2> QED BY <1>2, <2>1, <2>2, GotForAppend
<1>6. PICK z : z = Typing(u, i, Got(e))
  OBVIOUS
<1>7. /\ z = [j \in Ttys |-> z[j]] /\ z[i] = Append(u[i], Got(e))
      /\ \A j \in Ttys \ {i} : z[j] = u[j]
  <2>1. z = [u EXCEPT ![i] = Append(u[i], Got(e))]
    BY ONLY <1>6 DEF Typing
  <2>2. DOMAIN u = Ttys
    BY ONLY <1>4
  <2> QED BY ONLY <2>1, <2>2, i \in Ttys
<1>8. \A j \in Ttys : z[j] = GotFor(v[j])
  <2>1. \A j \in Ttys \ {i} : u[j] = GotFor(v[j])
    BY ONLY <1>2, <1>4
  <2> QED BY ONLY <1>5, <1>7, <2>1
<1>9. GotBy(v) = [j \in Ttys |-> GotFor(v[j])]
  BY ONLY <1>2 DEF GotBy
<1> QED BY ONLY <1>1, <1>3, <1>6, <1>7, <1>8, <1>9

\* What the driver gives for a key is meant, or one of the wrong characters named.
LEMMA GotOrMistyped ==
    ASSUME NEW e \in Entries PROVE Got(e) = Meant(e) \/ Mistyped(e, Got(e))
<1>1. PICK k, s, c : /\ k = e.key /\ s = e.shift /\ c = e.caps
                     /\ k \in TypingKeys /\ s \in BOOLEAN /\ c \in BOOLEAN
  BY DEF Entries
<1>2. PICK code : code = CodeTyped(k)
  OBVIOUS
<1>3. Got(e) = CharBy(code, s, c)
  BY <1>1, <1>2 DEF Got
<1>4. PICK d : d = Char(code, s)
  OBVIOUS
<1>5. Got(e) = IF c THEN SwapCase(d) ELSE d
  BY <1>3, <1>4 DEF CharBy
<1>6. /\ SwapCase("a") = "A" /\ SwapCase("A") = "a" /\ SwapCase("s") = "S"
      /\ SwapCase("B") = "b" /\ SwapCase("nl") = "nl" /\ SwapCase("NUL") = "NUL"
  BY DEF SwapCase
<1>7. CASE k = "A"
  <2>1. d = IF s THEN "A" ELSE "a"
    BY <1>2, <1>4, <1>7, Codes DEF CodeTyped, Char, map_table
  <2> QED BY <1>1, <1>5, <1>6, <1>7, <2>1 DEF Meant
<1>8. CASE k = "S"
  <2>1. d = IF s THEN "B" ELSE "s"
    BY <1>2, <1>4, <1>8, Codes DEF CodeTyped, Char, map_table
  <2> QED BY <1>1, <1>5, <1>6, <1>8, <2>1 DEF Meant, Mistyped
<1>9. CASE k = "Enter"
  <2>1. d = "nl"
    BY <1>2, <1>4, <1>9, Codes DEF CodeTyped, Char, map_table
  <2> QED BY <1>1, <1>5, <1>6, <1>9, <2>1 DEF Meant
<1>10. CASE k \in {"Esc", "Pause"}
  <2>1. d = "NUL"
    BY <1>2, <1>4, <1>10, Codes DEF CodeTyped, Char, map_table
  <2> QED BY <1>1, <1>5, <1>6, <1>10, <2>1 DEF Mistyped
<1> QED BY <1>1, <1>7, <1>8, <1>9, <1>10 DEF TypingKeys

-----------------------------------------------------------------------------
(* The bytes of a key take the driver from what the user meant before it   *)
(* to what the user means after it.                                        *)

CapsOn(n) == IF n = 1 THEN TRUE ELSE FALSE

\* The driver state z is what a user means who holds the keys h and, unless misled,
\* has CapsLock, the terminal and the text as given.
Expresses(z, h, m, n, i, x) ==
    \E c, t, s :
        /\ c \in BOOLEAN
        /\ z = DriverState("NORMAL", h \cap Modifiers, c, t, s)
        /\ ~m => c = CapsOn(n) /\ t = i /\ s = GotBy(x)

\* The bytes w take the driver from state x to what the user means.
Leads(x, w, h, m, n, i, y) ==
    IsSeq(w) /\ \E z : Expresses(z, h, m, n, i, y) /\ Takes(x, w, z)

UserType ==
    /\ caps \in {0, 1} /\ misled \in BOOLEAN /\ chosen \in Ttys
    /\ text \in [Ttys -> Seq(Entries)]

LEMMA FlagsOfHeld ==
    /\ Shifted(held \cap Modifiers) <=> Shifted(held)
    /\ Control(held \cap Modifiers) <=> Control(held)
BY DEF Shifted, Control, Modifiers

LEMMA LeadsTo ==
    ASSUME NEW x, NEW w, NEW h, NEW m, NEW n, NEW i, NEW y,
           NEW c \in BOOLEAN, NEW t, NEW s, NEW p, p = h \cap Modifiers,
           IsSeq(w), Takes(x, w, DriverState("NORMAL", p, c, t, s)),
           ~m => c = CapsOn(n) /\ t = i /\ s = GotBy(y)
    PROVE  Leads(x, w, h, m, n, i, y)
BY DEF Leads, Expresses

LEMMA DownTakes ==
    ASSUME NEW k \in Keys, KeyDown(k), UserType,
           NEW x, Leads(x, wire, held, misled, caps, chosen, text)
    PROVE  Leads(x, wire', held', misled', caps', chosen', text')
<1>p. PICK p : p = held \cap Modifiers
  OBVIOUS
<1>z. PICK z : Expresses(z, held, misled, caps, chosen, text) /\ Takes(x, wire, z)
  BY DEF Leads
<1>0. PICK c, t, s :
        /\ c \in BOOLEAN
        /\ z = DriverState("NORMAL", p, c, t, s)
        /\ ~misled => c = CapsOn(caps) /\ t = chosen /\ s = GotBy(text)
  BY <1>p, <1>z DEF Expresses
<1>y. IsSeq(wire)
  BY DEF Leads
<1>1. /\ wire' = wire \o MakeBytes(k)
      /\ held' = held \cup ({k} \ {"Pause"})
      /\ caps' = IF k = "Caps" /\ k \notin held THEN 1 - caps ELSE caps
      /\ chosen' = IF k \in FKeys /\ Control(held) THEN FNumber(k) ELSE chosen
      /\ text' = IF k \in TypingKeys
                 THEN [text EXCEPT ![chosen] =
                           Append(@, [key |-> k, shift |-> Shifted(held), caps |-> caps = 1])]
                 ELSE text
      /\ misled' = (misled \/ (k = "Caps" /\ k \in held))
  BY DEF KeyDown, Send
<1>m. ~misled' => ~misled
  BY <1>1
<1>3. CASE k \in Modifiers
  <2>1. PICK b : b = Make(Code[k])
    OBVIOUS
  <2>2. b.make
    BY <2>1, CodeOf
  <2>3. Flagged(p, k, b.make) = held' \cap Modifiers
    BY <1>1, <1>p, <1>3, <2>2 DEF Flagged, Modifiers
  <2>4. caps' = caps /\ chosen' = chosen /\ text' = text
    BY <1>1, <1>3 DEF Modifiers, FKeys, TypingKeys
  <2>5. PICK q : q = Flagged(p, k, b.make)
    OBVIOUS
  <2>6. Takes(x, wire', DriverState("NORMAL", q, c, t, s)) /\ IsSeq(wire')
    <3>1. CASE k \in Extended
      <4>1. MakeBytes(k) = <<KEY_E0, b>>
        BY <2>1, <3>1, <1>3 DEF MakeBytes, Modifiers
      <4>2. DriverState("NORMAL", q, c, t, s) = After(After(z, KEY_E0), b)
        BY ONLY <1>0, <1>3, <2>1, <2>5, <3>1, AfterModifier
      <4> QED BY <1>1, <1>y, <1>z, <4>1, <4>2, TakesMore
    <3>2. CASE k \notin Extended
      <4>1. MakeBytes(k) = <<b>>
        BY <2>1, <3>2, <1>3 DEF MakeBytes, Modifiers
      <4>2. DriverState("NORMAL", q, c, t, s) = After(z, b)
        BY ONLY <1>0, <1>3, <2>1, <2>5, <3>2, AfterModifier
      <4> QED BY <1>1, <1>y, <1>z, <4>1, <4>2, TakesMore
    <3> QED BY <3>1, <3>2
  <2> QED BY ONLY <1>0, <1>m, <2>3, <2>4, <2>5, <2>6, LeadsTo
<1>4. CASE k \in FKeys
  <2>1. PICK b : b = Make(Code[k])
    OBVIOUS
  <2>2. /\ held' \cap Modifiers = p /\ caps' = caps /\ text' = text
        /\ chosen' = IF Control(p) THEN FNumber(k) ELSE chosen
    BY <1>1, <1>4, <1>p, FlagsOfHeld DEF FKeys, Modifiers, TypingKeys
  <2>3. PICK u : u = IF Control(p) THEN FNumber(k) ELSE t
    OBVIOUS
  <2>4. DriverState("NORMAL", p, c, u, s) = After(z, b)
    BY ONLY <1>0, <1>4, <2>1, <2>3, AfterFunction
  <2>5. MakeBytes(k) = <<b>>
    BY <1>4, <2>1 DEF MakeBytes, FKeys, Extended
  <2>6. Takes(x, wire', DriverState("NORMAL", p, c, u, s)) /\ IsSeq(wire')
    BY <1>1, <1>y, <1>z, <2>4, <2>5, TakesMore
  <2> QED BY ONLY <1>0, <1>m, <2>2, <2>3, <2>6, LeadsTo
<1>5. CASE k = "Caps"
  <2>1. held' \cap Modifiers = p /\ text' = text /\ chosen' = chosen
    BY <1>1, <1>p, <1>5 DEF FKeys, Modifiers, TypingKeys
  <2>2. PICK d : d = IF c THEN FALSE ELSE TRUE
    OBVIOUS
  <2>3. d \in BOOLEAN /\ (~misled' => d = CapsOn(caps'))
    <3>1. d \in BOOLEAN
      BY <2>2
    <3>2. CASE ~misled'
      <4>1. caps' = 1 - caps /\ c = CapsOn(caps) /\ caps \in {0, 1}
        BY <1>0, <1>1, <1>5, <3>2 DEF UserType
      <4>2. CASE caps = 0
        BY ONLY <2>2, <3>1, <4>1, <4>2 DEF CapsOn
      <4>3. CASE caps = 1
        BY ONLY <2>2, <3>1, <4>1, <4>3 DEF CapsOn
      <4> QED BY <4>1, <4>2, <4>3
    <3> QED BY <3>1, <3>2
  <2>4. DriverState("NORMAL", p, d, t, s) = After(z, Make("3A"))
    BY ONLY <1>0, <2>2, AfterCaps
  <2>5. MakeBytes(k) = <<Make("3A")>>
    BY <1>5, Codes DEF MakeBytes, Extended
  <2>6. Takes(x, wire', DriverState("NORMAL", p, d, t, s)) /\ IsSeq(wire')
    BY <1>1, <1>y, <1>z, <2>4, <2>5, TakesMore
  <2> QED BY ONLY <1>0, <1>m, <2>1, <2>3, <2>6, LeadsTo
<1>t. ASSUME k \in TypingKeys, NEW code, code = CodeTyped(k), NEW r,
             r = Typing(s, t, CharOf(code, p, c)),
             Takes(x, wire', DriverState("NORMAL", p, c, t, r)), IsSeq(wire')
      PROVE  Leads(x, wire', held', misled', caps', chosen', text')
  <2>1. held' \cap Modifiers = p /\ caps' = caps /\ chosen' = chosen
    BY <1>1, <1>p, <1>t DEF FKeys, Modifiers, TypingKeys
  <2>2. PICK e : e = [key |-> k, shift |-> Shifted(held), caps |-> caps = 1]
    OBVIOUS
  <2>3. e \in Entries
    BY <1>t, <2>2 DEF Entries, Shifted
  <2>4. text' = [text EXCEPT ![chosen] = Append(@, e)]
    BY <1>1, <1>t, <2>2
  <2>5. GotBy(text') = Typing(GotBy(text), chosen, Got(e))
    BY <2>3, <2>4, GotByTyping DEF UserType
  <2>6. ASSUME ~misled PROVE Got(e) = CharOf(code, p, c)
    <3>1. PICK h : h = Shifted(held)
      OBVIOUS
    <3>2. c = (caps = 1)
      BY <1>0, <2>6 DEF CapsOn
    <3>3. e.key = k /\ e.shift = h /\ e.caps = (caps = 1)
      BY <2>2, <3>1
    <3>4. Shifted(p) <=> h
      BY <1>p, <3>1, FlagsOfHeld
    <3>5. Got(e) = CharBy(code, h, c)
      BY <1>t, <3>2, <3>3 DEF Got
    <3>6. CharBy(code, h, c) = CharBy(code, Shifted(p), c)
      BY <3>4 DEF CharBy, Char
    <3> QED BY <3>5, <3>6 DEF CharOf
  <2>7. ~misled => r = GotBy(text')
    BY <1>0, <1>t, <2>5, <2>6
  <2> QED BY ONLY <1>0, <1>m, <1>t, <2>1, <2>7, LeadsTo
<1>6. CASE k \in {"A", "S", "Esc", "Enter"}
  <2>1. PICK code : code = Code[k]
    OBVIOUS
  <2>2. code \in LetterCodes /\ code = CodeTyped(k) /\ k \in TypingKeys
    BY <1>6, <2>1, Codes DEF LetterCodes, CodeTyped, TypingKeys
  <2>3. PICK r : r = Typing(s, t, CharOf(code, p, c))
    OBVIOUS
  <2>4. DriverState("NORMAL", p, c, t, r) = After(z, Make(code))
    BY ONLY <1>0, <2>2, <2>3, AfterLetter
  <2>5. MakeBytes(k) = <<Make(code)>>
    BY <1>6, <2>1 DEF MakeBytes, Extended
  <2>6. Takes(x, wire', DriverState("NORMAL", p, c, t, r)) /\ IsSeq(wire')
    BY <1>1, <1>y, <1>z, <2>4, <2>5, TakesMore
  <2> QED BY ONLY <1>t, <2>2, <2>3, <2>6
<1>u. ASSUME k \in {"Up", "PrtSc"}, Takes(x, wire', z), IsSeq(wire')
      PROVE  Leads(x, wire', held', misled', caps', chosen', text')
  <2>1. held' \cap Modifiers = p /\ caps' = caps /\ chosen' = chosen /\ text' = text
    BY <1>1, <1>p, <1>u DEF FKeys, Modifiers, TypingKeys
  <2> QED BY ONLY <1>0, <1>m, <1>u, <2>1, LeadsTo
<1>7. CASE k = "Up"
  <2>3. MakeBytes(k) = <<KEY_E0, Make("48")>>
    BY <1>7, Codes DEF MakeBytes, Extended
  <2>4. After(After(z, KEY_E0), Make("48")) = z
    BY ONLY <1>0, AfterIgnored
  <2>5. Takes(x, wire', z) /\ IsSeq(wire')
    BY <1>1, <1>y, <1>z, <2>3, <2>4, TakesMore
  <2> QED BY <1>u, <1>7, <2>5
<1>8. CASE k = "PrtSc"
  <2>3. MakeBytes(k) = <<KEY_E0, Make("2A"), KEY_E0, Make("37")>>
    BY <1>8 DEF MakeBytes, Extended
  <2>4. After(After(z, KEY_E0), Make("2A")) = z /\ After(After(z, KEY_E0), Make("37")) = z
    BY ONLY <1>0, AfterIgnored
  <2>5. Takes(x, wire', z) /\ IsSeq(wire')
    BY ZenonT(60), <1>1, <1>y, <1>z, <2>3, <2>4, TakesMore
  <2> QED BY <1>u, <1>8, <2>5
<1>9. CASE k = "Pause"
  <2>1. PICK r : r = Typing(s, t, CharOf("45", p, c))
    OBVIOUS
  <2>2. PICK v : v = DriverState("NORMAL", p, c, t, r)
    OBVIOUS
  <2>4. MakeBytes(k) = <<KEY_E1, Make("1D"), Make("45"), KEY_E1, Break("1D"), Break("45")>>
    BY <1>9 DEF MakeBytes, Extended
  <2>12. "45" \in LetterCodes /\ "45" = CodeTyped(k) /\ k \in TypingKeys
    BY <1>9 DEF LetterCodes, CodeTyped, TypingKeys
  <2>5. After(After(z, KEY_E1), Make("1D")) = z
    BY ONLY <1>0, AfterIgnored
  <2>6. After(z, Make("45")) = v
    BY ONLY <1>0, <2>1, <2>2, <2>12, AfterLetter
  <2>7. After(After(v, KEY_E1), Break("1D")) = v
    BY ONLY <2>2, AfterIgnored
  <2>8. After(v, Break("45")) = v
    BY ONLY <2>2, <2>12, AfterLetter
  <2>9. PICK e, a, b, g, h :
             /\ e = KEY_E1 /\ a = Make("1D") /\ b = Make("45")
             /\ g = Break("1D") /\ h = Break("45")
    OBVIOUS
  <2>10. After(After(After(After(After(After(z, e), a), b), e), g), h) = v
    BY ONLY <2>5, <2>6, <2>7, <2>8, <2>9
  <2>13. /\ Takes(x, wire \o <<e, a, b, e, g, h>>,
                  After(After(After(After(After(After(z, e), a), b), e), g), h))
         /\ IsSeq(wire \o <<e, a, b, e, g, h>>)
    BY ONLY ZenonT(60), TakesMore, <1>y, <1>z
  <2>14. Takes(x, wire', DriverState("NORMAL", p, c, t, r)) /\ IsSeq(wire')
    BY ONLY <1>1, <2>2, <2>4, <2>9, <2>10, <2>13
  <2> QED BY ONLY <1>t, <2>1, <2>12, <2>14
<1> QED
  BY <1>3, <1>4, <1>5, <1>6, <1>7, <1>8, <1>9, KeysAssumption DEF Others

LEMMA UpTakes ==
    ASSUME NEW k \in Keys, KeyUp(k), UserType,
           NEW x, Leads(x, wire, held, misled, caps, chosen, text)
    PROVE  Leads(x, wire', held', misled', caps', chosen', text')
<1>p. PICK p : p = held \cap Modifiers
  OBVIOUS
<1>z. PICK z : Expresses(z, held, misled, caps, chosen, text) /\ Takes(x, wire, z)
  BY DEF Leads
<1>0. PICK c, t, s :
        /\ c \in BOOLEAN
        /\ z = DriverState("NORMAL", p, c, t, s)
        /\ ~misled => c = CapsOn(caps) /\ t = chosen /\ s = GotBy(text)
  BY <1>p, <1>z DEF Expresses
<1>y. IsSeq(wire)
  BY DEF Leads
<1>1. /\ wire' = wire \o BreakBytes(k)
      /\ held' = held \ {k} /\ caps' = caps /\ text' = text /\ chosen' = chosen
      /\ misled' = (misled \/ (k \in FKeys /\ Control(held) /\ FNumber(k) # chosen))
  BY DEF KeyUp, Send
<1>m. ~misled' => ~misled
  BY <1>1
<1>3. CASE k \in Modifiers
  <2>1. PICK b : b = Break(Code[k])
    OBVIOUS
  <2>2. ~b.make
    BY <2>1, CodeOf
  <2>5. PICK q : q = Flagged(p, k, b.make)
    OBVIOUS
  <2>3. q = held' \cap Modifiers
    BY <1>1, <1>p, <1>3, <2>2, <2>5 DEF Flagged
  <2>6. Takes(x, wire', DriverState("NORMAL", q, c, t, s)) /\ IsSeq(wire')
    <3>1. CASE k \in Extended
      <4>1. BreakBytes(k) = <<KEY_E0, b>>
        BY <2>1, <3>1, <1>3 DEF BreakBytes, Modifiers
      <4>2. DriverState("NORMAL", q, c, t, s) = After(After(z, KEY_E0), b)
        BY ONLY <1>0, <1>3, <2>1, <2>5, <3>1, AfterModifier
      <4> QED BY <1>1, <1>y, <1>z, <4>1, <4>2, TakesMore
    <3>2. CASE k \notin Extended
      <4>1. BreakBytes(k) = <<b>>
        BY <2>1, <3>2, <1>3 DEF BreakBytes, Modifiers
      <4>2. DriverState("NORMAL", q, c, t, s) = After(z, b)
        BY ONLY <1>0, <1>3, <2>1, <2>5, <3>2, AfterModifier
      <4> QED BY <1>1, <1>y, <1>z, <4>1, <4>2, TakesMore
    <3> QED BY <3>1, <3>2
  <2> QED BY ONLY <1>0, <1>1, <1>m, <2>3, <2>6, LeadsTo
<1>4. CASE k \in FKeys
  <2>1. PICK b : b = Break(Code[k])
    OBVIOUS
  <2>2. held' \cap Modifiers = p /\ (Control(p) <=> Control(held))
    BY <1>1, <1>4, <1>p, FlagsOfHeld DEF FKeys, Modifiers
  <2>3. PICK u : u = IF Control(p) THEN FNumber(k) ELSE t
    OBVIOUS
  <2>4. DriverState("NORMAL", p, c, u, s) = After(z, b)
    BY ONLY <1>0, <1>4, <2>1, <2>3, AfterFunction
  <2>5. BreakBytes(k) = <<b>>
    BY <1>4, <2>1 DEF BreakBytes, FKeys, Extended
  <2>6. Takes(x, wire', DriverState("NORMAL", p, c, u, s)) /\ IsSeq(wire')
    BY <1>1, <1>y, <1>z, <2>4, <2>5, TakesMore
  <2>7. ~misled' => u = chosen
    BY ONLY <1>0, <1>1, <1>m, <1>4, <2>2, <2>3
  <2> QED BY ONLY <1>0, <1>1, <1>m, <2>2, <2>6, <2>7, LeadsTo
<1>u. ASSUME k \notin Modifiers \cup FKeys, Takes(x, wire', z), IsSeq(wire')
      PROVE  Leads(x, wire', held', misled', caps', chosen', text')
  <2>1. held' \cap Modifiers = p
    BY <1>1, <1>p, <1>u
  <2> QED BY ONLY <1>0, <1>1, <1>m, <1>u, <2>1, LeadsTo
<1>5. /\ \A a \in {"Caps", "A", "S", "Esc", "Enter", "Up", "PrtSc", "Pause"} :
            a \notin Modifiers \cup FKeys
  BY DEF Modifiers, FKeys
<1>6. CASE k = "Caps"
  <2>1. BreakBytes(k) = <<Break("3A")>>
    BY <1>6, Codes DEF BreakBytes, Extended
  <2>2. After(z, Break("3A")) = z
    BY ONLY <1>0, AfterCapsUp
  <2>3. Takes(x, wire', z) /\ IsSeq(wire')
    BY <1>1, <1>y, <1>z, <2>1, <2>2, TakesMore
  <2> QED BY <1>u, <1>5, <1>6, <2>3
<1>7. CASE k \in {"A", "S", "Esc", "Enter"}
  <2>1. PICK code : code = Code[k]
    OBVIOUS
  <2>2. code \in LetterCodes
    BY <1>7, <2>1, Codes DEF LetterCodes
  <2>3. After(z, Break(code)) = z
    BY ONLY <1>0, <2>2, AfterLetter
  <2>4. BreakBytes(k) = <<Break(code)>>
    BY <1>7, <2>1 DEF BreakBytes, Extended
  <2>5. Takes(x, wire', z) /\ IsSeq(wire')
    BY <1>1, <1>y, <1>z, <2>3, <2>4, TakesMore
  <2> QED BY <1>u, <1>5, <1>7, <2>5
<1>8. CASE k = "Up"
  <2>1. BreakBytes(k) = <<KEY_E0, Break("48")>>
    BY <1>8, Codes DEF BreakBytes, Extended
  <2>2. After(After(z, KEY_E0), Break("48")) = z
    BY ONLY <1>0, AfterIgnored
  <2>3. Takes(x, wire', z) /\ IsSeq(wire')
    BY <1>1, <1>y, <1>z, <2>1, <2>2, TakesMore
  <2> QED BY <1>u, <1>5, <1>8, <2>3
<1>9. CASE k = "PrtSc"
  <2>1. BreakBytes(k) = <<KEY_E0, Break("37"), KEY_E0, Break("2A")>>
    BY <1>9 DEF BreakBytes, Extended
  <2>2. After(After(z, KEY_E0), Break("37")) = z /\ After(After(z, KEY_E0), Break("2A")) = z
    BY ONLY <1>0, AfterIgnored
  <2>3. Takes(x, wire', z) /\ IsSeq(wire')
    BY ZenonT(60), <1>1, <1>y, <1>z, <2>1, <2>2, TakesMore
  <2> QED BY <1>u, <1>5, <1>9, <2>3
<1>10. CASE k = "Pause"
  <2>1. BreakBytes(k) = <<>>
    BY <1>10 DEF BreakBytes, Extended
  <2>2. Takes(x, wire', z) /\ IsSeq(wire')
    BY <1>1, <1>y, <1>z, <2>1, TakesMore
  <2> QED BY <1>u, <1>5, <1>10, <2>2
<1> QED
  BY <1>3, <1>4, <1>6, <1>7, <1>8, <1>9, <1>10, KeysAssumption DEF Others

-----------------------------------------------------------------------------
(* Kbd: the driver understands the keys.                                   *)

WireInv == UserType /\ Leads(Driver, wire, held, misled, caps, chosen, text)

LEMMA WireInvInit == Init => WireInv
<1> SUFFICES ASSUME Init PROVE WireInv
  OBVIOUS
<1>1. PICK e : e = [i \in Ttys |-> <<>>]
  OBVIOUS
<1>2. /\ Driver = DriverState("NORMAL", {}, FALSE, 0, e)
      /\ wire = <<>> /\ held \cap Modifiers = {} /\ misled = FALSE /\ caps = 0 /\ chosen = 0
      /\ text = e
  BY <1>1 DEF Init, Driver
<1>3. UserType
  BY <1>1, <1>2, TtysAssumption DEF UserType
<1>4. GotBy(e) = e
  <2>1. PICK q : q = <<>>
    OBVIOUS
  <2>2. GotFor(q) = q
    BY <2>1 DEF GotFor
  <2>3. e = [i \in Ttys |-> q]
    BY <1>1, <2>1
  <2> QED BY ONLY <2>2, <2>3 DEF GotBy
<1>5. Takes(Driver, wire, DriverState("NORMAL", {}, FALSE, 0, e)) /\ IsSeq(wire)
  BY <1>2, EmptyIsSeq, TakesNothing
<1>6. FALSE = CapsOn(caps)
  BY <1>2 DEF CapsOn
<1>7. Leads(Driver, wire, held, misled, caps, chosen, text)
  <2>1. PICK x : x = Driver
    OBVIOUS
  <2> QED BY ONLY <1>2, <1>4, <1>5, <1>6, <2>1, LeadsTo
<1> QED BY <1>3, <1>7 DEF WireInv

LEMMA WireInvNext == WireInv /\ [Next]_vars => WireInv'
<1> SUFFICES ASSUME WireInv, [Next]_vars PROVE WireInv'
  OBVIOUS
<1>1. UserType /\ Leads(Driver, wire, held, misled, caps, chosen, text)
  BY DEF WireInv
<1>2. ASSUME NEW k \in Keys, KeyDown(k) PROVE WireInv'
  <2>1. Driver' = Driver
    BY <1>2 DEF KeyDown, driverVars, ttyVars, Driver
  <2>2. Leads(Driver, wire', held', misled', caps', chosen', text')
    BY ONLY <1>1, <1>2, DownTakes
  <2>3. UserType'
    <3>1. /\ caps' = IF k = "Caps" /\ k \notin held THEN 1 - caps ELSE caps
          /\ chosen' = IF k \in FKeys /\ Control(held) THEN FNumber(k) ELSE chosen
          /\ misled' = (misled \/ (k = "Caps" /\ k \in held))
      BY ONLY <1>2 DEF KeyDown
    <3>2. text' \in [Ttys -> Seq(Entries)]
      <4>1. PICK e : e = [key |-> k, shift |-> Shifted(held), caps |-> caps = 1]
        OBVIOUS
      <4>2. text' = IF k \in TypingKeys THEN [text EXCEPT ![chosen] = Append(@, e)] ELSE text
        BY ONLY <1>2, <4>1 DEF KeyDown
      <4>3. k \in TypingKeys => e \in Entries
        BY <4>1 DEF Entries, Shifted
      <4>4. text \in [Ttys -> Seq(Entries)] /\ chosen \in Ttys
        BY <1>1 DEF UserType
      <4> QED BY ONLY <4>2, <4>3, <4>4
    <3>3. chosen' \in Ttys
      BY <1>1, <3>1, FKeysAssumption DEF UserType
    <3>4. caps' \in {0, 1} /\ misled' \in BOOLEAN
      BY <1>1, <3>1 DEF UserType
    <3> QED BY <3>2, <3>3, <3>4 DEF UserType
  <2> QED BY <2>1, <2>2, <2>3 DEF WireInv
<1>3. ASSUME NEW k \in Keys, KeyUp(k) PROVE WireInv'
  <2>1. Driver' = Driver
    BY <1>3 DEF KeyUp, driverVars, ttyVars, Driver
  <2>2. Leads(Driver, wire', held', misled', caps', chosen', text')
    BY ONLY <1>1, <1>3, UpTakes
  <2>3. UserType'
    BY <1>1, <1>3 DEF KeyUp, UserType
  <2> QED BY <2>1, <2>2, <2>3 DEF WireInv
<1>4. CASE handle_kbd
  <2>1. /\ wire # <<>> /\ wire' = Tail(wire)
        /\ UNCHANGED <<held, caps, chosen, text, misled, events>>
        /\ Driver' = After(Driver, Head(wire))
    BY <1>4, InterruptStep
  <2>2. UserType'
    BY <1>1, <2>1 DEF UserType
  <2>3. PICK z : Expresses(z, held, misled, caps, chosen, text) /\ Takes(Driver, wire, z)
    BY <1>1 DEF Leads
  <2>4. IsSeq(wire)
    BY <1>1 DEF Leads
  <2>5. Takes(After(Driver, Head(wire)), Tail(wire), z)
    BY <2>1, <2>3, <2>4, TakesOneLess
  <2>6. IsSeq(Tail(wire))
    BY <2>1, <2>4, TailIsSeq
  <2>7. Leads(Driver', wire', held', misled', caps', chosen', text')
    BY <2>1, <2>3, <2>5, <2>6 DEF Leads
  <2> QED BY <2>2, <2>7 DEF WireInv
<1>5. ASSUME UNCHANGED driverVars, UNCHANGED seen, UNCHANGED userVars PROVE WireInv'
  <2>1. Driver' = Driver
    BY <1>5 DEF Driver, driverVars
  <2>2. UNCHANGED <<wire, held, misled, caps, chosen, text>>
    BY <1>5 DEF userVars
  <2> QED BY <1>1, <2>1, <2>2 DEF WireInv, UserType
<1>6. ASSUME NEW i \in Ttys, tty_open(i) PROVE WireInv'
  BY <1>5, <1>6 DEF tty_open
<1>7. ASSUME NEW i \in Ttys, tty_read(i) \/ tty_fifo_get(i) PROVE WireInv'
  BY <1>5, <1>7 DEF tty_read, tty_fifo_get
<1>8. CASE UNCHANGED vars
  BY <1>5, <1>8 DEF vars, ttyVars
<1> QED BY <1>2, <1>3, <1>4, <1>6, <1>7, <1>8 DEF Next

LEMMA WireInvUnderstood == WireInv => KeysUnderstood
<1> SUFFICES ASSUME WireInv, wire = <<>> PROVE KeysUnderstood
  BY DEF KeysUnderstood
<1>1. PICK z : Expresses(z, held, misled, caps, chosen, text) /\ Takes(Driver, wire, z)
  BY DEF WireInv, Leads
<1>2. PICK c, t, s :
        /\ c \in BOOLEAN
        /\ z = DriverState("NORMAL", held \cap Modifiers, c, t, s)
        /\ ~misled => c = CapsOn(caps) /\ t = chosen /\ s = GotBy(text)
  BY <1>1 DEF Expresses
<1>3. Driver = z
  BY <1>1, TakesNothing
<1>4. /\ recv_state = "NORMAL" /\ press = held \cap Modifiers
      /\ caps_lock = c /\ curr_tty = t /\ seen = s
  BY <1>2, <1>3 DEF Driver, DriverState
<1>5. ASSUME ~misled
      PROVE  /\ caps_lock <=> caps = 1
             /\ curr_tty = chosen
  BY <1>2, <1>4, <1>5 DEF CapsOn
<1>6. ASSUME ~misled, NEW i \in Ttys
      PROVE  /\ Len(seen[i]) = Len(text[i])
             /\ \A j \in 1 .. Len(text[i]) :
                   seen[i][j] = Meant(text[i][j]) \/ Mistyped(text[i][j], seen[i][j])
  <2>1. PICK q : q = text[i]
    OBVIOUS
  <2>2. q \in Seq(Entries) /\ DOMAIN text = Ttys
    BY <2>1 DEF WireInv, UserType
  <2>3. seen[i] = GotFor(q)
    BY <1>2, <1>4, <1>6, <2>1, <2>2 DEF GotBy
  <2>4. PICK n : n = Len(q) /\ n \in Nat
    BY <2>2
  <2>5. seen[i] = [j \in 1 .. n |-> Got(q[j])]
    BY <2>3, <2>4 DEF GotFor
  <2>6. Len(seen[i]) = n
    BY <2>4, <2>5
  <2>7. ASSUME NEW j \in 1 .. n
        PROVE  seen[i][j] = Meant(q[j]) \/ Mistyped(q[j], seen[i][j])
    <3>1. q[j] \in Entries
      BY <2>2, <2>4
    <3>2. seen[i][j] = Got(q[j])
      BY <2>5
    <3> QED BY <3>1, <3>2, GotOrMistyped
  <2> QED BY <2>1, <2>4, <2>6, <2>7
<1> QED BY <1>4, <1>5, <1>6 DEF KeysUnderstood

\* The driver understands every sequence of keys, of any length and however many bytes
\* are waiting, up to the characters that Mistyped names and the events that mislead it:
\* between a key event and its interrupts the bytes still to be handled lead the driver
\* from what it has understood to what the user meant.
THEOREM KeysAreUnderstood == Spec => []KeysUnderstood
<1>1. Spec => []WireInv
  BY WireInvInit, WireInvNext, PTL DEF Spec
<1> QED BY <1>1, WireInvUnderstood, PTL

-----------------------------------------------------------------------------
(* Kbd: the units of an open terminal.                                     *)

BuffersType ==
    /\ opened \subseteq Ttys
    /\ isem \in [Ttys -> Nat] /\ waiting \in [Ttys -> Nat] /\ holding \in [Ttys -> Nat]
    /\ overrun \in [Ttys -> BOOLEAN]
    /\ DOMAIN ififo = Ttys /\ DOMAIN seen = Ttys /\ DOMAIN since = Ttys
    /\ \A i \in Ttys : /\ IsSeq(ififo[i]) /\ IsSeq(seen[i])
                       /\ since[i] \in Nat /\ since[i] <= Len(seen[i])

\* A terminal with u units counted, h and w readers past sem_wait and blocked in it,
\* and m characters stored, where n characters were typed, b of them before it was
\* opened.
Counts(u, h, w, o, m, n, b) ==
    /\ u + h >= m
    /\ ~o => u + h = m
    /\ w > 0 => u = 0
    /\ m <= n - b

CountsOf(i) ==
    Counts(isem[i], holding[i], waiting[i], overrun[i], Len(ififo[i]), Len(seen[i]), since[i])

UnitsInv ==
    /\ BuffersType
    /\ \A i \in opened : CountsOf(i)
    /\ \A i \in Ttys \ opened : waiting[i] = 0 /\ holding[i] = 0

LEMMA LenIsNat == ASSUME NEW q, IsSeq(q) PROVE Len(q) \in Nat
BY DEF IsSeq

LEMMA UnitsInvInit == Init => UnitsInv
<1> SUFFICES ASSUME Init PROVE UnitsInv
  OBVIOUS
<1>1. /\ opened = {0} /\ 0 \in Ttys
      /\ ififo = [i \in Ttys |-> <<>>] /\ isem = [i \in Ttys |-> 0]
      /\ waiting = [i \in Ttys |-> 0] /\ holding = [i \in Ttys |-> 0]
      /\ seen = [i \in Ttys |-> <<>>] /\ since = [i \in Ttys |-> 0]
      /\ overrun = [i \in Ttys |-> FALSE]
  BY TtysAssumption DEF Init
<1>2. BuffersType
  BY <1>1, EmptyIsSeq DEF BuffersType
<1>3. CountsOf(0)
  BY <1>1, EmptyIsSeq DEF CountsOf, Counts
<1> QED BY <1>1, <1>2, <1>3 DEF UnitsInv

\* What a step leaves alone for the terminals other than t.
OthersKept(t) ==
    /\ DOMAIN ififo' = Ttys /\ DOMAIN seen' = Ttys /\ DOMAIN since' = Ttys
    /\ isem' \in [Ttys -> Nat] /\ waiting' \in [Ttys -> Nat] /\ holding' \in [Ttys -> Nat]
    /\ overrun' \in [Ttys -> BOOLEAN]
    /\ \A i \in Ttys \ {t} :
          /\ ififo'[i] = ififo[i] /\ seen'[i] = seen[i] /\ since'[i] = since[i]
          /\ isem'[i] = isem[i] /\ waiting'[i] = waiting[i] /\ holding'[i] = holding[i]
          /\ overrun'[i] = overrun[i]

LEMMA UnitsInvAt ==
    ASSUME UnitsInv, NEW t \in Ttys, OthersKept(t), opened' \in {opened, opened \cup {t}},
           IsSeq(ififo'[t]), IsSeq(seen'[t]), since'[t] \in Nat, since'[t] <= Len(seen'[t]),
           t \in opened' => Counts(isem'[t], holding'[t], waiting'[t], overrun'[t],
                                   Len(ififo'[t]), Len(seen'[t]), since'[t]),
           t \notin opened' => waiting'[t] = 0 /\ holding'[t] = 0
    PROVE  UnitsInv'
<1>1. BuffersType /\ \A i \in opened : CountsOf(i)
  BY DEF UnitsInv
<1>2. opened' \subseteq Ttys
  BY <1>1 DEF BuffersType
<1>3. \A i \in Ttys : /\ IsSeq(ififo'[i]) /\ IsSeq(seen'[i])
                      /\ since'[i] \in Nat /\ since'[i] <= Len(seen'[i])
  BY <1>1 DEF BuffersType, OthersKept
<1>4. BuffersType'
  BY <1>2, <1>3 DEF BuffersType, OthersKept
<1>5. ASSUME NEW i \in opened' PROVE CountsOf(i)'
  <2>1. CASE i = t
    BY <1>5, <2>1 DEF CountsOf
  <2>2. CASE i # t
    <3>1. i \in opened /\ i \in Ttys \ {t}
      BY <1>1, <1>2, <2>2 DEF BuffersType
    <3>2. CountsOf(i)
      BY <1>1, <3>1
    <3> QED BY ONLY <3>1, <3>2, OthersKept(t) DEF OthersKept, CountsOf
  <2> QED BY <2>1, <2>2
<1>6. \A i \in Ttys \ opened' : waiting'[i] = 0 /\ holding'[i] = 0
  BY DEF UnitsInv, OthersKept
<1> QED BY <1>4, <1>5, <1>6 DEF UnitsInv

LEMMA UnitsInvIn ==
    ASSUME UnitsInv, NEW ch, tty_in(ch) PROVE UnitsInv'
<1>1. PICK t : t = curr_tty
  OBVIOUS
<1>2. BuffersType
  BY DEF UnitsInv
<1>3. /\ seen' = [seen EXCEPT ![t] = Append(@, ch)]
      /\ opened' = opened /\ since' = since
  BY <1>1 DEF tty_in
<1>p. PICK full : full = (Len(ififo[t]) >= IF t \in opened THEN IBUF_SIZE ELSE 0)
  OBVIOUS
<1>4. \/ isem[t] >= IBUF_SIZE /\ UNCHANGED <<ififo, isem, waiting, holding, overrun>>
      \/ /\ ififo' = [ififo EXCEPT ![t] = IF full THEN @ ELSE Append(@, ch)]
         /\ overrun' = [overrun EXCEPT ![t] = @ \/ full]
         /\ sem_notify(t)
  BY <1>1, <1>p DEF tty_in
<1>5. CASE t \notin Ttys
  <2>1. /\ DOMAIN seen' = Ttys /\ \A i \in Ttys : seen'[i] = seen[i]
        /\ opened' = opened /\ since' = since
    BY <1>2, <1>3, <1>5 DEF BuffersType
  <2>2. /\ DOMAIN ififo' = Ttys /\ \A i \in Ttys : ififo'[i] = ififo[i]
        /\ overrun' = overrun
    BY <1>2, <1>4, <1>5 DEF BuffersType
  <2>3. isem' = isem /\ waiting' = waiting /\ holding' = holding
    BY <1>2, <1>4, <1>5 DEF BuffersType, sem_notify
  <2>4. BuffersType'
    BY <1>2, <2>1, <2>2, <2>3 DEF BuffersType
  <2>5. \A i \in opened : CountsOf(i)'
    <3>1. \A i \in opened : i \in Ttys /\ CountsOf(i)
      BY <1>2 DEF UnitsInv, BuffersType
    <3> QED BY ONLY <2>1, <2>2, <2>3, <3>1 DEF CountsOf
  <2> QED BY <2>1, <2>3, <2>4, <2>5 DEF UnitsInv
<1>6. CASE t \in Ttys
  <2>1. PICK q, s : q = ififo[t] /\ s = seen[t]
    OBVIOUS
  <2>2. PICK m, n, b : m = Len(q) /\ n = Len(s) /\ b = since[t]
    OBVIOUS
  <2>3. IsSeq(q) /\ IsSeq(s) /\ m \in Nat /\ n \in Nat /\ b \in Nat /\ b <= n
    BY <1>2, <1>6, <2>1, <2>2, LenIsNat DEF BuffersType
  <2>4. /\ IsSeq(Append(q, ch)) /\ Len(Append(q, ch)) = m + 1
        /\ IsSeq(Append(s, ch)) /\ Len(Append(s, ch)) = n + 1
    BY ONLY <2>2, <2>3, AppendIsSeq
  <2>5. /\ DOMAIN seen' = Ttys /\ \A i \in Ttys \ {t} : seen'[i] = seen[i]
        /\ seen'[t] = Append(s, ch) /\ since' = since
    BY <1>2, <1>3, <1>6, <2>1 DEF BuffersType
  <2>6. PICK u, h, w, o : u = isem[t] /\ h = holding[t] /\ w = waiting[t] /\ o = overrun[t]
    OBVIOUS
  <2>7. u \in Nat /\ h \in Nat /\ w \in Nat /\ o \in BOOLEAN
    BY <1>2, <1>6, <2>6 DEF BuffersType
  <2>8. /\ t \in opened => Counts(u, h, w, o, m, n, b)
        /\ t \notin opened => w = 0 /\ h = 0
    BY <1>6, <2>1, <2>2, <2>6 DEF UnitsInv, CountsOf
  <2>9. CASE isem[t] >= IBUF_SIZE /\ UNCHANGED <<ififo, isem, waiting, holding, overrun>>
    <3>1. OthersKept(t)
      BY <1>2, <2>5, <2>9 DEF OthersKept, BuffersType
    <3>2. Counts(u, h, w, o, m, n, b) => Counts(u, h, w, o, m, n + 1, b)
      BY ONLY <2>3, <2>7 DEF Counts
    <3>3. /\ ififo'[t] = q /\ isem'[t] = u /\ holding'[t] = h /\ waiting'[t] = w
          /\ overrun'[t] = o /\ Len(seen'[t]) = n + 1 /\ since'[t] = b
          /\ IsSeq(seen'[t]) /\ b <= n + 1
      BY <2>1, <2>2, <2>3, <2>4, <2>5, <2>6, <2>9
    <3> QED BY <1>3, <1>6, <2>2, <2>3, <2>8, <3>1, <3>2, <3>3, UnitsInvAt
  <2>10. CASE /\ ififo' = [ififo EXCEPT ![t] = IF full THEN @ ELSE Append(@, ch)]
              /\ overrun' = [overrun EXCEPT ![t] = @ \/ full]
              /\ sem_notify(t)
    <3>1. PICK r : r = IF full THEN q ELSE Append(q, ch)
      OBVIOUS
    <3>2. /\ DOMAIN ififo' = Ttys /\ ififo'[t] = r
          /\ \A i \in Ttys \ {t} : ififo'[i] = ififo[i]
      BY <1>2, <1>6, <2>1, <2>10, <3>1 DEF BuffersType
    <3>3. /\ overrun' \in [Ttys -> BOOLEAN] /\ overrun'[t] = (o \/ full)
          /\ \A i \in Ttys \ {t} : overrun'[i] = overrun[i]
      <4>1. full \in BOOLEAN
        BY <1>p
      <4>2. overrun \in [Ttys -> BOOLEAN] /\ overrun' = [overrun EXCEPT ![t] = @ \/ full]
        BY <1>2, <2>10 DEF BuffersType
      <4> QED BY ONLY <1>6, <2>6, <4>1, <4>2
    <3>4. PICK u2, h2, w2 :
             /\ u2 \in Nat /\ h2 \in Nat /\ w2 \in Nat
             /\ isem' = [isem EXCEPT ![t] = u2] /\ holding' = [holding EXCEPT ![t] = h2]
             /\ waiting' = [waiting EXCEPT ![t] = w2]
             /\ \/ w > 0 /\ u2 = u /\ h2 = h + 1 /\ w2 = w - 1
                \/ w = 0 /\ u2 = u + 1 /\ h2 = h /\ w2 = w
      <4>1. /\ isem \in [Ttys -> Nat] /\ waiting \in [Ttys -> Nat] /\ holding \in [Ttys -> Nat]
        BY <1>2 DEF BuffersType
      <4>2. CASE w > 0
        <5>1. /\ waiting' = [waiting EXCEPT ![t] = w - 1]
              /\ holding' = [holding EXCEPT ![t] = h + 1] /\ isem' = isem
          BY <2>6, <2>10, <4>2 DEF sem_notify
        <5>2. isem' = [isem EXCEPT ![t] = u]
          BY <1>6, <2>6, <4>1, <5>1
        <5>3. w - 1 \in Nat /\ h + 1 \in Nat
          BY <2>7, <4>2
        <5> QED BY <2>7, <4>2, <5>1, <5>2, <5>3
      <4>3. CASE ~(w > 0)
        <5>1. /\ isem' = [isem EXCEPT ![t] = u + 1] /\ waiting' = waiting /\ holding' = holding
          BY <2>6, <2>10, <4>3 DEF sem_notify
        <5>2. waiting' = [waiting EXCEPT ![t] = w] /\ holding' = [holding EXCEPT ![t] = h]
          BY <1>6, <2>6, <4>1, <5>1
        <5>3. w = 0 /\ u + 1 \in Nat
          BY <2>7, <4>3
        <5> QED BY <2>7, <5>1, <5>2, <5>3
      <4> QED BY <4>2, <4>3
    <3>5. /\ isem' \in [Ttys -> Nat] /\ waiting' \in [Ttys -> Nat] /\ holding' \in [Ttys -> Nat]
          /\ isem'[t] = u2 /\ holding'[t] = h2 /\ waiting'[t] = w2
          /\ \A i \in Ttys \ {t} : /\ isem'[i] = isem[i] /\ waiting'[i] = waiting[i]
                                   /\ holding'[i] = holding[i]
      BY <1>2, <1>6, <3>4 DEF BuffersType
    <3>6. OthersKept(t)
      BY <1>2, <2>5, <3>2, <3>3, <3>5 DEF OthersKept, BuffersType
    <3>7. PICK m2 : m2 = Len(r)
      OBVIOUS
    <3>8. IsSeq(r) /\ m2 = IF full THEN m ELSE m + 1
      BY ONLY <2>2, <2>3, <2>4, <3>1, <3>7
    <3>9. Counts(u, h, w, o, m, n, b) => Counts(u2, h2, w2, o \/ full, m2, n + 1, b)
      BY ONLY <2>3, <2>7, <3>4, <3>8 DEF Counts
    <3>10. t \notin opened => w2 = 0 /\ h2 = 0
      BY <2>7, <2>8, <3>4
    <3>11. Len(seen'[t]) = n + 1 /\ since'[t] = b /\ IsSeq(seen'[t]) /\ b <= n + 1
      BY <2>2, <2>3, <2>4, <2>5
    <3> QED
      BY <1>3, <1>6, <2>3, <2>8, <3>2, <3>3, <3>5, <3>6, <3>7, <3>8, <3>9, <3>10, <3>11, UnitsInvAt
  <2> QED BY <1>4, <2>9, <2>10
<1> QED BY <1>5, <1>6

LEMMA UnitsInvOpen ==
    ASSUME UnitsInv, NEW i \in Ttys, tty_open(i) PROVE UnitsInv'
<1>1. BuffersType
  BY DEF UnitsInv
<1>2. PICK n : n = Len(seen[i]) /\ n \in Nat
  BY <1>1, LenIsNat DEF BuffersType
<1>3. /\ opened' = opened \cup {i} /\ seen' = seen /\ waiting' = waiting /\ holding' = holding
      /\ DOMAIN ififo' = Ttys /\ ififo'[i] = <<>> /\ \A j \in Ttys \ {i} : ififo'[j] = ififo[j]
      /\ isem' \in [Ttys -> Nat] /\ isem'[i] = 0 /\ \A j \in Ttys \ {i} : isem'[j] = isem[j]
      /\ DOMAIN since' = Ttys /\ since'[i] = n
      /\ \A j \in Ttys \ {i} : since'[j] = since[j]
  BY <1>1, <1>2 DEF tty_open, BuffersType
<1>4. /\ overrun' \in [Ttys -> BOOLEAN] /\ overrun'[i] = FALSE
      /\ \A j \in Ttys \ {i} : overrun'[j] = overrun[j]
  BY <1>1 DEF tty_open, BuffersType
<1>5. OthersKept(i)
  BY <1>1, <1>3, <1>4 DEF OthersKept, BuffersType
<1>6. waiting[i] = 0 /\ holding[i] = 0
  BY DEF UnitsInv, tty_open
<1>7. Counts(0, 0, 0, FALSE, 0, n, n)
  BY <1>2 DEF Counts
<1>8. IsSeq(seen'[i]) /\ since'[i] = n /\ Len(seen'[i]) = n
  BY <1>1, <1>2, <1>3 DEF BuffersType
<1>9. Counts(isem'[i], holding'[i], waiting'[i], overrun'[i],
             Len(ififo'[i]), Len(seen'[i]), since'[i])
  BY <1>3, <1>4, <1>6, <1>7, <1>8, EmptyIsSeq
<1> QED BY <1>2, <1>3, <1>5, <1>8, <1>9, EmptyIsSeq, UnitsInvAt

LEMMA UnitsInvRead ==
    ASSUME UnitsInv, NEW i \in Ttys, tty_read(i) PROVE UnitsInv'
<1>1. BuffersType
  BY DEF UnitsInv
<1>2. PICK u, h, w, o, m, n, b :
         /\ u = isem[i] /\ h = holding[i] /\ w = waiting[i] /\ o = overrun[i]
         /\ m = Len(ififo[i]) /\ n = Len(seen[i]) /\ b = since[i]
  OBVIOUS
<1>3. u \in Nat /\ h \in Nat /\ w \in Nat /\ m \in Nat /\ n \in Nat /\ b \in Nat
  BY <1>1, <1>2, LenIsNat DEF BuffersType
<1>4. i \in opened /\ UNCHANGED <<opened, ififo, seen, since, overrun>>
  BY DEF tty_read
<1>5. Counts(u, h, w, o, m, n, b)
  BY <1>2, <1>4 DEF UnitsInv, CountsOf
<1>6. CASE u > 0
  <2>1. /\ isem' = [isem EXCEPT ![i] = u - 1] /\ holding' = [holding EXCEPT ![i] = h + 1]
        /\ waiting' = waiting
    BY <1>2, <1>6 DEF tty_read
  <2>2. u - 1 \in Nat /\ h + 1 \in Nat
    BY <1>3, <1>6
  <2>3. OthersKept(i) /\ isem'[i] = u - 1 /\ holding'[i] = h + 1
    BY <1>1, <1>4, <2>1, <2>2 DEF OthersKept, BuffersType
  <2>4. Counts(u - 1, h + 1, w, o, m, n, b)
    BY ONLY <1>3, <1>5, <1>6 DEF Counts
  <2> QED BY <1>1, <1>2, <1>4, <2>1, <2>3, <2>4, UnitsInvAt DEF BuffersType
<1>7. CASE ~(u > 0)
  <2>1. waiting' = [waiting EXCEPT ![i] = w + 1] /\ isem' = isem /\ holding' = holding
    BY <1>2, <1>7 DEF tty_read
  <2>2. OthersKept(i) /\ waiting'[i] = w + 1
    BY <1>1, <1>3, <1>4, <2>1 DEF OthersKept, BuffersType
  <2>3. Counts(u, h, w + 1, o, m, n, b)
    BY ONLY <1>3, <1>5, <1>7 DEF Counts
  <2> QED BY <1>1, <1>2, <1>4, <2>1, <2>2, <2>3, UnitsInvAt DEF BuffersType
<1> QED BY <1>6, <1>7

LEMMA UnitsInvGet ==
    ASSUME UnitsInv, NEW i \in Ttys, tty_fifo_get(i) PROVE UnitsInv'
<1>1. BuffersType
  BY DEF UnitsInv
<1>2. PICK q, u, h, w, o, m, n, b :
         /\ u = isem[i] /\ h = holding[i] /\ w = waiting[i] /\ o = overrun[i]
         /\ q = ififo[i] /\ m = Len(q) /\ n = Len(seen[i]) /\ b = since[i]
  OBVIOUS
<1>3. /\ u \in Nat /\ h \in Nat /\ w \in Nat /\ m \in Nat /\ n \in Nat /\ b \in Nat
      /\ IsSeq(q)
  BY <1>1, <1>2, LenIsNat DEF BuffersType
<1>4. /\ h > 0 /\ UNCHANGED <<opened, isem, waiting, seen, since, overrun>>
      /\ holding' = [holding EXCEPT ![i] = h - 1]
      /\ ififo' = [ififo EXCEPT ![i] = IF q = <<>> THEN q ELSE Tail(q)]
  BY <1>2 DEF tty_fifo_get
<1>5. i \in opened
  BY <1>2, <1>3, <1>4 DEF UnitsInv
<1>6. Counts(u, h, w, o, m, n, b)
  BY <1>2, <1>5 DEF UnitsInv, CountsOf
<1>7. PICK r : r = IF q = <<>> THEN q ELSE Tail(q)
  OBVIOUS
<1>8. PICK k : k = Len(r)
  OBVIOUS
<1>9. IsSeq(r) /\ \/ q = <<>> /\ m = 0 /\ k = 0
                  \/ m \in Nat \ {0} /\ k = m - 1
  <2>1. CASE q = <<>>
    BY ONLY <1>2, <1>7, <1>8, <2>1, EmptyIsSeq
  <2>2. CASE q # <<>>
    <3>1. IsSeq(Tail(q)) /\ Len(Tail(q)) = Len(q) - 1 /\ Len(q) \in Nat /\ Len(q) # 0
      BY ONLY <1>3, <2>2, TailIsSeq, LenNotZero
    <3> QED BY ONLY <1>2, <1>3, <1>7, <1>8, <2>2, <3>1
  <2> QED BY <2>1, <2>2
<1>10. h - 1 \in Nat
  BY <1>3, <1>4
<1>11. OthersKept(i) /\ holding'[i] = h - 1 /\ ififo'[i] = r
  BY <1>1, <1>4, <1>7, <1>10 DEF OthersKept, BuffersType
<1>12. o \in BOOLEAN
  BY <1>1, <1>2 DEF BuffersType
<1>13. Counts(u, h - 1, w, o, k, n, b)
  BY ONLY <1>3, <1>4, <1>6, <1>9, <1>12 DEF Counts
<1> QED
  BY <1>1, <1>2, <1>4, <1>5, <1>8, <1>9, <1>11, <1>13, UnitsInvAt DEF BuffersType

LEMMA UnitsInvNext == UnitsInv /\ [Next]_vars => UnitsInv'
<1> SUFFICES ASSUME UnitsInv, [Next]_vars PROVE UnitsInv'
  OBVIOUS
<1>1. ASSUME UNCHANGED ttyVars PROVE UnitsInv'
  BY <1>1 DEF UnitsInv, BuffersType, CountsOf, ttyVars
<1>2. ASSUME NEW k \in Keys, KeyDown(k) \/ KeyUp(k) PROVE UnitsInv'
  BY <1>1, <1>2 DEF KeyDown, KeyUp
<1>3. CASE handle_kbd
  <2>1. UNCHANGED ttyVars \/ \E c : tty_in(KeyChar(c))
    BY <1>3 DEF handle_kbd, do_normal_key, do_e0_key
  <2> QED BY <1>1, <2>1, UnitsInvIn
<1>4. ASSUME NEW i \in Ttys, tty_open(i) \/ tty_read(i) \/ tty_fifo_get(i) PROVE UnitsInv'
  BY <1>4, UnitsInvOpen, UnitsInvRead, UnitsInvGet
<1>5. CASE UNCHANGED vars
  BY <1>1, <1>5 DEF vars
<1> QED BY <1>2, <1>3, <1>4, <1>5 DEF Next

\* tty_open forgets what was counted before it, and tty_in, whether it counts a unit or
\* hands it to a blocked reader, and the readers between sem_wait and tty_fifo_get keep
\* units and characters together, whatever is typed and whenever a terminal is opened.
THEOREM UnitsAreOfOpen == Spec => []UnitsOfOpen
<1>1. UnitsInv => UnitsOfOpen
  BY DEF UnitsInv, UnitsOfOpen, CountsOf, Counts
<1> QED BY <1>1, UnitsInvInit, UnitsInvNext, PTL DEF Spec

-----------------------------------------------------------------------------
(* Console: the cursor that is shown.                                      *)

Place(i) == CursorPos(i, con[i])

\* A place that was computed and not yet written to the registers is that of the
\* console, unless the console was written to since; the registers show the place of
\* the console they were last written for, or a task that wrote to it is on its way to
\* update them.
CursorInv ==
    /\ DOMAIN con = Consoles /\ DOMAIN pc = Writers /\ DOMAIN pos = Writers
    /\ hw = [start |-> hw.start, cursor |-> hw.cursor]
    /\ opened \subseteq inited
    /\ \A w \in Writers : pc[w] # "idle" => Console_of[w] \in opened
    /\ hw.start = curr_tty * AREA
    /\ \A w \in Writers : pc[w] = "out" /\ w \notin stale => pos[w] = Place(Console_of[w])
    /\ last.console \in Consoles
    /\ ~last.stale => \/ hw.cursor = Place(last.console)
                      \/ \E w \in Writers : pc[w] # "idle" /\ Console_of[w] = last.console

LEMMA Quotient ==
    ASSUME NEW n \in Nat, n > 0, NEW x \in Nat
    PROVE  x \div n \in Nat /\ x % n \in 0 .. n - 1 /\ x = (x \div n) * n + (x % n)
OBVIOUS

LEMMA ProductIsNat == ASSUME NEW a \in Nat, NEW b \in Nat PROVE a * b \in Nat
OBVIOUS

LEMMA Factor ==
    ASSUME NEW n \in Nat \ {0}, NEW a \in Nat, NEW m \in Nat, n * a <= m
    PROVE  a <= m
<1>1. PICK e \in Nat : n = e + 1
  BY n - 1 \in Nat
<1>2. n * a = e * a + a /\ e * a \in Nat
  BY <1>1
<1> QED BY <1>2

LEMMA Sizes ==
    /\ 0 \in Consoles /\ AREA \in Nat /\ AREA <= 65536 /\ COLS \in Nat \ {0}
    /\ BiosCursor \subseteq 0 .. AREA - 1
    /\ Console_of \in [Writers -> Consoles]
    /\ Ttys \subseteq Consoles
<1>1. CONSOLE_NR \in Nat \ {0} /\ ROWS \in Nat \ {0} /\ COLS \in Nat \ {0}
  BY SizeAssumption
<1>2. AREA \in Nat /\ CONSOLE_NR * AREA <= 65536
  BY <1>1, SizeAssumption DEF AREA
<1>3. AREA <= 65536
  BY ONLY <1>1, <1>2, Factor
<1> QED
  BY <1>1, <1>2, <1>3, WriterAssumption, ScreenAssumption DEF Consoles

LEMMA CursorInvInit == ConsoleInit => CursorInv
<1> SUFFICES ASSUME ConsoleInit PROVE CursorInv
  OBVIOUS
<1>1. PICK p \in BiosCursor :
        /\ con = [i \in Consoles |-> NewConsole(i, IF i = 0 THEN p ELSE 0)]
        /\ hw = [start |-> 0, cursor |-> p]
  BY ONLY ConsoleInit DEF ConsoleInit
<1>2. /\ 0 \in Consoles /\ p \in Nat /\ p < 65536
      /\ AREA \in Nat /\ COLS \in Nat /\ COLS > 0
  BY ONLY Sizes, p \in BiosCursor
<1>3. hw.cursor = Place(0)
  <2>1. con[0] = NewConsole(0, p)
    BY <1>1, <1>2
  <2>2. con[0].row = p \div COLS /\ con[0].col = p % COLS
    BY <2>1 DEF NewConsole
  <2>3. 0 * AREA = 0 /\ p % 65536 = p
    BY ONLY <1>2
  <2>4. PICK a : a = p \div COLS
    OBVIOUS
  <2>5. PICK b : b = p % COLS
    OBVIOUS
  <2>6. a \in Nat /\ b \in Nat /\ p = a * COLS + b
    BY ONLY <1>2, <2>4, <2>5, Quotient
  <2>7. 0 * AREA + a * COLS + b = p
    <3>1. PICK m : m = a * COLS
      OBVIOUS
    <3>2. m \in Nat
      BY ONLY <3>1, ProductIsNat, <1>2, <2>6
    <3> QED BY ONLY <2>3, <2>6, <3>1, <3>2
  <2>8. Place(0) = (0 * AREA + a * COLS + b) % 65536
    BY ONLY <2>2, <2>4, <2>5 DEF Place, CursorPos
  <2> QED BY ONLY <1>1, <2>3, <2>7, <2>8
<1>4. /\ DOMAIN con = Consoles /\ DOMAIN pc = Writers /\ DOMAIN pos = Writers
      /\ \A w \in Writers : pc[w] = "idle"
      /\ last.console = 0 /\ opened \subseteq inited
  BY ONLY ConsoleInit, <1>1 DEF ConsoleInit
<1>5. hw = [start |-> hw.start, cursor |-> hw.cursor] /\ hw.start = 0
  BY ONLY <1>1
<1>6. hw.start = curr_tty * AREA
  <2>1. curr_tty = 0
    BY ONLY ConsoleInit DEF ConsoleInit
  <2>2. 0 * AREA = 0
    BY ONLY <1>2
  <2> QED BY ONLY <1>5, <2>1, <2>2
<1> QED BY ONLY <1>2, <1>3, <1>4, <1>5, <1>6 DEF CursorInv

\* console_init of i changes the cursor of no other console.
LEMMA SetUpOther ==
    ASSUME CursorInv, NEW i, SetUp(i)
    PROVE  /\ DOMAIN con' = Consoles
           /\ \A j \in Consoles : j # i => Place(j)' = Place(j)
           /\ inited' = inited \cup {i}
<1>1. DOMAIN con = Consoles
  BY ONLY CursorInv DEF CursorInv
<1>2. PICK k : con' = [con EXCEPT ![i] = k]
  BY ONLY SetUp(i) DEF SetUp
<1>3. \A j \in Consoles : j # i => con'[j] = con[j]
  BY ONLY <1>1, <1>2
<1>4. inited' = inited \cup {i}
  BY ONLY SetUp(i) DEF SetUp
<1>5. DOMAIN con' = Consoles
  BY ONLY <1>1, <1>2
<1> QED BY <1>3, <1>4, <1>5 DEF Place

LEMMA CursorInvWrite ==
    ASSUME CursorInv, NEW w \in Writers, NEW c, Write(w, c) PROVE CursorInv'
<1>1. PICK i : i = Console_of[w]
  OBVIOUS
<1>2. /\ i \in opened /\ pc' = [pc EXCEPT ![w] = "update"]
      /\ stale' = stale \cup {u \in Writers : pc[u] = "out" /\ Console_of[u] = i}
      /\ inited' = inited /\ opened' = opened /\ curr_tty' = curr_tty /\ hw' = hw /\ pos' = pos
      /\ last' = last
  BY ONLY Write(w, c), <1>1 DEF Write
<1>3. \E k : con' = [con EXCEPT ![i] = k]
  BY ONLY Write(w, c), <1>1 DEF Write
<1>4. PICK k : con' = [con EXCEPT ![i] = k]
  BY <1>3
<1>5. /\ DOMAIN con = Consoles /\ DOMAIN pc = Writers /\ DOMAIN pos = Writers
      /\ Console_of \in [Writers -> Consoles]
  BY Sizes DEF CursorInv
<1>6. \A j \in Consoles : j # i => Place(j)' = Place(j)
  <2>1. \A j \in Consoles : j # i => con'[j] = con[j]
    BY ONLY <1>4, <1>5
  <2> QED BY <2>1 DEF Place
<1>7. /\ DOMAIN con' = Consoles /\ DOMAIN pc' = Writers /\ DOMAIN pos' = Writers
      /\ pc'[w] = "update" /\ \A u \in Writers : u # w => pc'[u] = pc[u]
  BY ONLY <1>2, <1>4, <1>5, w \in Writers
<1>8. \A u \in Writers : pc'[u] # "idle" => Console_of[u] \in opened'
  BY ONLY CursorInv, <1>1, <1>2, <1>7 DEF CursorInv
<1>9. ASSUME NEW u \in Writers, pc'[u] = "out", u \notin stale'
      PROVE  pos'[u] = Place(Console_of[u])'
  <2>1. u # w /\ pc[u] = "out" /\ u \notin stale /\ Console_of[u] # i
    BY ONLY <1>2, <1>7, <1>9
  <2>2. pos[u] = Place(Console_of[u])
    BY ONLY CursorInv, <2>1, u \in Writers DEF CursorInv
  <2>3. PICK j \in Consoles : j = Console_of[u]
    BY ONLY <1>5, u \in Writers
  <2>4. Place(j)' = Place(j)
    BY ONLY <1>6, <2>1, <2>3
  <2> QED BY <1>2, <2>2, <2>3, <2>4
<1>10. PICK l \in Consoles : l = last.console
  BY ONLY CursorInv DEF CursorInv
<1>11. ASSUME ~last.stale
       PROVE  \/ hw'.cursor = Place(l)'
              \/ \E u \in Writers : pc'[u] # "idle" /\ Console_of[u] = l
  <2>1. CASE l = i
    BY ONLY <1>1, <1>7, <2>1, w \in Writers
  <2>2. CASE l # i
    <3>1. CASE hw.cursor = Place(l)
      BY ONLY <1>2, <1>6, <2>2, <3>1
    <3>2. CASE \E u \in Writers : pc[u] # "idle" /\ Console_of[u] = l
      BY ONLY <1>1, <1>7, <2>2, <3>2
    <3>3. \/ hw.cursor = Place(l)
          \/ \E u \in Writers : pc[u] # "idle" /\ Console_of[u] = l
      BY ONLY CursorInv, <1>10, <1>11 DEF CursorInv
    <3> QED BY ONLY <3>1, <3>2, <3>3
  <2> QED BY ONLY <2>1, <2>2
<1>12. Place(last.console)' = Place(l)'
  BY ONLY <1>2, <1>10 DEF Place
<1> QED
  BY ONLY CursorInv, <1>2, <1>7, <1>8, <1>9, <1>10, <1>11, <1>12 DEF CursorInv

LEMMA CursorInvUpdate ==
    ASSUME CursorInv, NEW w \in Writers, UpdatePos(w) PROVE CursorInv'
<1>1. PICK i : i = Console_of[w]
  OBVIOUS
<1>2. /\ pc[w] = "update" /\ pc' = [pc EXCEPT ![w] = "out"]
      /\ pos' = [pos EXCEPT ![w] = Place(i)]
      /\ inited' = inited /\ opened' = opened /\ curr_tty' = curr_tty /\ hw' = hw
      /\ con' = con /\ stale' = stale /\ last' = last
  BY ONLY UpdatePos(w), <1>1 DEF UpdatePos, Place
<1>3. /\ DOMAIN con = Consoles /\ DOMAIN pc = Writers /\ DOMAIN pos = Writers
  BY ONLY CursorInv DEF CursorInv
<1>4. /\ DOMAIN pc' = Writers /\ DOMAIN pos' = Writers /\ pc'[w] = "out" /\ pos'[w] = Place(i)
      /\ \A u \in Writers : u # w => pc'[u] = pc[u] /\ pos'[u] = pos[u]
  BY ONLY <1>2, <1>3, w \in Writers
<1>5. \A j : Place(j)' = Place(j)
  BY ONLY <1>2 DEF Place
<1>6. \A u \in Writers : pc'[u] # "idle" <=> pc[u] # "idle"
  BY ONLY <1>2, <1>4
<1>7. ASSUME NEW u \in Writers, pc'[u] = "out", u \notin stale'
      PROVE  pos'[u] = Place(Console_of[u])'
  <2>1. CASE u = w
    BY ONLY <1>1, <1>4, <1>5, <2>1
  <2>2. CASE u # w
    BY ONLY CursorInv, <1>2, <1>4, <1>5, <1>7, <2>2 DEF CursorInv
  <2> QED BY ONLY <2>1, <2>2
<1>8. Place(last.console)' = Place(last.console)
  BY ONLY <1>2 DEF Place
<1> QED
  BY ONLY CursorInv, <1>2, <1>3, <1>4, <1>6, <1>7, <1>8 DEF CursorInv

LEMMA CursorInvOut ==
    ASSUME CursorInv, NEW w \in Writers, UpdateOut(w) PROVE CursorInv'
<1>1. PICK i \in Consoles : i = Console_of[w]
  BY Sizes
<1>2. /\ pc[w] = "out" /\ pc' = [pc EXCEPT ![w] = "idle"] /\ pos' = [pos EXCEPT ![w] = 0]
      /\ hw' = [hw EXCEPT !.cursor = pos[w]]
      /\ last' = [console |-> i, stale |-> w \in stale]
      /\ inited' = inited /\ opened' = opened /\ curr_tty' = curr_tty
      /\ con' = con /\ stale' = stale \ {w}
  BY ONLY UpdateOut(w), <1>1 DEF UpdateOut
<1>3. /\ DOMAIN con = Consoles /\ DOMAIN pc = Writers /\ DOMAIN pos = Writers
      /\ hw = [start |-> hw.start, cursor |-> hw.cursor]
  BY ONLY CursorInv DEF CursorInv
<1>4. /\ DOMAIN pc' = Writers /\ DOMAIN pos' = Writers /\ pc'[w] = "idle"
      /\ \A u \in Writers : u # w => pc'[u] = pc[u] /\ pos'[u] = pos[u]
  BY ONLY <1>2, <1>3, w \in Writers
<1>5. /\ hw' = [start |-> hw'.start, cursor |-> hw'.cursor]
      /\ hw'.start = hw.start /\ hw'.cursor = pos[w]
  BY ONLY <1>2, <1>3
<1>6. \A j : Place(j)' = Place(j)
  BY ONLY <1>2 DEF Place
<1>7. last'.console = i /\ (last'.stale <=> w \in stale)
  BY ONLY <1>2
<1>8. ASSUME NEW u \in Writers, pc'[u] = "out", u \notin stale'
      PROVE  pos'[u] = Place(Console_of[u])'
  <2>1. u # w /\ pc[u] = "out" /\ u \notin stale /\ pos'[u] = pos[u]
    BY ONLY <1>2, <1>4, <1>8
  <2> QED BY ONLY CursorInv, <1>6, <2>1, u \in Writers DEF CursorInv
<1>9. w \notin stale => hw'.cursor = Place(i)
  BY ONLY CursorInv, <1>1, <1>2, <1>5, w \in Writers DEF CursorInv
<1>10. Place(last.console)' = Place(i)
  BY ONLY <1>2, <1>7 DEF Place
<1>11. \A u \in Writers : pc'[u] # "idle" => Console_of[u] \in opened'
  BY ONLY CursorInv, <1>2, <1>4 DEF CursorInv
<1> QED
  BY ONLY CursorInv, <1>2, <1>3, <1>4, <1>5, <1>7, <1>8, <1>9, <1>10, <1>11 DEF CursorInv

\* What tty_open and tty_select have in common: console i may have been set up, which
\* no task writes to, and the cursor shown is that of console i.
LEMMA CursorInvShow ==
    ASSUME CursorInv, NEW i \in Consoles,
           \/ con' = con /\ inited' = inited
           \/ SetUp(i) /\ i \notin opened,
           opened \subseteq opened', opened' \subseteq inited',
           hw' = [start |-> hw'.start, cursor |-> CursorPos(i, con'[i])],
           hw'.start = curr_tty' * AREA,
           last' = [console |-> i, stale |-> FALSE],
           pc' = pc, pos' = pos, stale' = stale
    PROVE  CursorInv'
<1>1. /\ DOMAIN con' = Consoles
      /\ \A j \in Consoles : j \in opened => Place(j)' = Place(j)
  <2>1. CASE con' = con /\ inited' = inited
    BY ONLY CursorInv, <2>1 DEF CursorInv, Place
  <2>2. CASE SetUp(i) /\ i \notin opened
    BY ONLY CursorInv, i \in Consoles, <2>2, SetUpOther
  <2> QED BY <2>1, <2>2
<1>2. ASSUME NEW u \in Writers, pc'[u] = "out", u \notin stale'
      PROVE  pos'[u] = Place(Console_of[u])'
  <2>1. PICK j \in Consoles : j = Console_of[u]
    BY Sizes
  <2>2. pos[u] = Place(j) /\ j \in opened
    BY ONLY CursorInv, <1>2, <2>1, pc' = pc, stale' = stale DEF CursorInv
  <2>3. Place(j)' = Place(j)
    BY ONLY <1>1, <2>2
  <2> QED BY ONLY <2>1, <2>2, <2>3, pos' = pos
<1>3. Place(last.console)' = CursorPos(i, con'[i])
  BY DEF Place
<1>4. hw'.cursor = CursorPos(i, con'[i]) /\ hw' = [start |-> hw'.start, cursor |-> hw'.cursor]
  OBVIOUS
<1>5. last'.console = i
  OBVIOUS
<1>6. \A u \in Writers : pc'[u] # "idle" => Console_of[u] \in opened'
  BY DEF CursorInv
<1>7. DOMAIN pc' = Writers /\ DOMAIN pos' = Writers
  BY DEF CursorInv
<1> QED
  BY ONLY <1>1, <1>2, <1>3, <1>4, <1>5, <1>6, <1>7, opened' \subseteq inited',
          hw'.start = curr_tty' * AREA, i \in Consoles DEF CursorInv

LEMMA CursorInvOpen ==
    ASSUME CursorInv, NEW i \in Consoles, open_console(i) PROVE CursorInv'
<1>1. /\ i \notin opened /\ opened' = opened \cup {i} /\ SetUp(i)
      /\ hw' = [hw EXCEPT !.cursor = CursorPos(i, con'[i])]
      /\ last' = [console |-> i, stale |-> FALSE]
      /\ curr_tty' = curr_tty /\ pc' = pc /\ pos' = pos /\ stale' = stale
  BY ONLY open_console(i) DEF open_console
<1>2. hw = [start |-> hw.start, cursor |-> hw.cursor] /\ opened \subseteq inited
      /\ hw.start = curr_tty * AREA
  BY ONLY CursorInv DEF CursorInv
<1>3. inited' = inited \cup {i}
  BY ONLY <1>1 DEF SetUp
<1>4. hw' = [start |-> hw'.start, cursor |-> CursorPos(i, con'[i])] /\ hw'.start = hw.start
  BY ONLY <1>1, <1>2
<1>5. opened \subseteq opened' /\ opened' \subseteq inited' /\ hw'.start = curr_tty' * AREA
  BY ONLY <1>1, <1>2, <1>3, <1>4
<1> QED BY ONLY CursorInv, i \in Consoles, <1>1, <1>4, <1>5, CursorInvShow

LEMMA CursorInvSelect ==
    ASSUME CursorInv, NEW i \in Consoles, console_select(i) PROVE CursorInv'
<1>1. /\ hw' = [start |-> i * AREA, cursor |-> CursorPos(i, con'[i])]
      /\ last' = [console |-> i, stale |-> FALSE]
      /\ opened' = opened /\ curr_tty' = i /\ pc' = pc /\ pos' = pos /\ stale' = stale
  BY ONLY console_select(i) DEF console_select
<1>2. IF i \in inited THEN con' = con /\ inited' = inited ELSE SetUp(i)
  BY ONLY console_select(i) DEF console_select
<1>3. opened \subseteq inited
  BY ONLY CursorInv DEF CursorInv
<1>4. inited \subseteq inited'
  BY ONLY <1>2 DEF SetUp
<1>5. \/ con' = con /\ inited' = inited
      \/ SetUp(i) /\ i \notin opened
  BY ONLY <1>2, <1>3
<1>6. /\ hw' = [start |-> hw'.start, cursor |-> CursorPos(i, con'[i])]
      /\ hw'.start = curr_tty' * AREA
  BY ONLY <1>1
<1>7. opened \subseteq opened' /\ opened' \subseteq inited'
  BY ONLY <1>1, <1>3, <1>4
<1> QED BY ONLY CursorInv, i \in Consoles, <1>1, <1>5, <1>6, <1>7, CursorInvShow

LEMMA CursorInvNext == CursorInv /\ [ConsoleNext]_displayVars => CursorInv'
<1> SUFFICES ASSUME CursorInv, [ConsoleNext]_displayVars PROVE CursorInv'
  OBVIOUS
<1>1. ASSUME NEW w \in Writers, NEW c \in Chars[w], Write(w, c) PROVE CursorInv'
  BY ONLY CursorInv, w \in Writers, <1>1, CursorInvWrite
<1>2. ASSUME NEW w \in Writers, UpdatePos(w) \/ UpdateOut(w) PROVE CursorInv'
  BY ONLY CursorInv, <1>2, CursorInvUpdate, CursorInvOut
<1>3. ASSUME NEW i \in Consoles, open_console(i) \/ console_select(i) PROVE CursorInv'
  BY ONLY CursorInv, <1>3, CursorInvOpen, CursorInvSelect
<1>4. CASE UNCHANGED displayVars
  <2>1. /\ con' = con /\ pc' = pc /\ pos' = pos /\ hw' = hw /\ opened' = opened
        /\ inited' = inited /\ stale' = stale /\ last' = last /\ curr_tty' = curr_tty
    BY ONLY <1>4 DEF displayVars, consoleVars
  <2>2. \A j : Place(j)' = Place(j)
    BY ONLY <2>1 DEF Place
  <2>3. Place(last.console)' = Place(last.console)
    BY ONLY <2>1 DEF Place
  <2> QED BY ONLY CursorInv, <2>1, <2>2, <2>3 DEF CursorInv
<1> QED BY ONLY [ConsoleNext]_displayVars, <1>1, <1>2, <1>3, <1>4 DEF ConsoleNext

LEMMA CursorInvShown == CursorInv => CursorShown
BY DEF CursorInv, CursorShown, Place

\* Whatever the tasks write and however the steps of console_write interleave with
\* each other and with the choice of a terminal, the registers show the selected
\* terminal and, when nobody is writing, its writer's cursor, with the one exception
\* of a place that was stale when it was written.
THEOREM CursorIsShown == ConsoleSpec => []CursorShown
<1>1. ConsoleSpec => []CursorInv
  BY CursorInvInit, CursorInvNext, PTL DEF ConsoleSpec
<1> QED BY <1>1, CursorInvShown, PTL

-----------------------------------------------------------------------------
(* The paper of a console: the cells g that have left the screen, then the *)
(* a cells of the display memory m from place b on.                        *)

OnPaper(g, m, b, a) == g \o [p \in 1 .. a |-> m[b + p - 1]]
BlankRow(n, pen)    == [j \in 1 .. n |-> <<" ", pen>>]

Laid(X, g, m, b, a, n) ==
    /\ g \in Seq(X) /\ a \in Nat /\ b \in Nat /\ n \in Nat /\ b + a <= n
    /\ m \in [0 .. n - 1 -> X]

\* s consists of the l cells of g and a cells of m.
IsPaper(X, s, l, g, m, b, a) ==
    /\ s \in Seq(X) /\ l \in Nat /\ Len(s) = l + a
    /\ \A j \in 1 .. l : s[j] = g[j]
    /\ \A j \in 1 .. a : s[l + j] = m[b + j - 1]

LEMMA PaperIs ==
    ASSUME NEW X, NEW g, NEW m, NEW b, NEW a, NEW n, Laid(X, g, m, b, a, n)
    PROVE  IsPaper(X, OnPaper(g, m, b, a), Len(g), g, m, b, a)
<1> USE DEF Laid
<1>1. PICK q : q = [p \in 1 .. a |-> m[b + p - 1]]
  OBVIOUS
<1>2. \A p \in 1 .. a : b + p - 1 \in 0 .. n - 1
  OBVIOUS
<1>3. \A p \in 1 .. a : m[b + p - 1] \in X
  BY <1>2
<1>4. q \in [1 .. a -> X]
  BY <1>1, <1>3
<1>5. q \in Seq(X) /\ Len(q) = a /\ \A p \in 1 .. a : q[p] = m[b + p - 1]
  BY ONLY SMTT(40), <1>1, <1>4, Laid(X, g, m, b, a, n)
<1>6. PICK l \in Nat : l = Len(g)
  BY LenProperties
<1>7. /\ g \o q \in Seq(X) /\ Len(g \o q) = l + a
      /\ \A j \in 1 .. l + a : (g \o q)[j] = IF j <= l THEN g[j] ELSE q[j - l]
  BY ONLY <1>5, <1>6, g \in Seq(X), ConcatProperties
<1>8. \A j \in 1 .. l : (g \o q)[j] = g[j]
  BY ONLY <1>7, a \in Nat, l \in Nat
<1>9. ASSUME NEW j \in 1 .. a PROVE (g \o q)[l + j] = m[b + j - 1]
  <2>1. l + j \in 1 .. l + a /\ ~(l + j <= l) /\ (l + j) - l = j
    BY ONLY a \in Nat, l \in Nat, j \in 1 .. a
  <2> QED BY ONLY <1>5, <1>7, <2>1, j \in 1 .. a
<1>10. IsPaper(X, g \o q, l, g, m, b, a)
  BY ONLY <1>6, <1>7, <1>8, <1>9 DEF IsPaper
<1> QED BY ONLY <1>1, <1>6, <1>10 DEF OnPaper

LEMMA BlankRowIs ==
    ASSUME NEW n \in Nat, NEW pen, NEW X, <<" ", pen>> \in X
    PROVE  /\ BlankRow(n, pen) \in Seq(X) /\ Len(BlankRow(n, pen)) = n
           /\ \A j \in 1 .. n : BlankRow(n, pen)[j] = <<" ", pen>>
<1>1. PICK c \in X : c = <<" ", pen>>
  OBVIOUS
<1>2. [j \in 1 .. n |-> c] \in [1 .. n -> X]
  OBVIOUS
<1>3. [j \in 1 .. n |-> c] \in Seq(X) /\ Len([j \in 1 .. n |-> c]) = n
  BY ONLY <1>2, n \in Nat
<1> QED BY <1>1, <1>3 DEF BlankRow

\* A cell of the screen is written.
LEMMA PaperPut ==
    ASSUME NEW X, NEW g, NEW m, NEW b, NEW a, NEW n, Laid(X, g, m, b, a, n), NEW p \in 0 .. a - 1, NEW x \in X
    PROVE  OnPaper(g, [m EXCEPT ![b + p] = x], b, a)
             = [OnPaper(g, m, b, a) EXCEPT ![Len(g) + p + 1] = x]
<1> g \in Seq(X) /\ a \in Nat /\ b \in Nat /\ n \in Nat /\ b + a <= n /\ m \in [0 .. n - 1 -> X]
  BY DEF Laid
<1>1. PICK w : w = [m EXCEPT ![b + p] = x]
  OBVIOUS
<1>2. w \in [0 .. n - 1 -> X] /\ \A q \in 0 .. n - 1 : w[q] = IF q = b + p THEN x ELSE m[q]
  BY <1>1
<1>3. PICK l \in Nat : l = Len(g)
  BY LenProperties
<1>4. PICK s : s = OnPaper(g, m, b, a)
  OBVIOUS
<1>5. PICK t : t = OnPaper(g, w, b, a)
  OBVIOUS
<1>6. /\ s \in Seq(X) /\ Len(s) = l + a
      /\ \A j \in 1 .. l : s[j] = g[j]
      /\ \A j \in 1 .. a : s[l + j] = m[b + j - 1]
  <2>1. Laid(X, g, m, b, a, n)
    BY DEF Laid
  <2>2. IsPaper(X, OnPaper(g, m, b, a), Len(g), g, m, b, a)
    BY ONLY <2>1, PaperIs
  <2> QED BY ONLY <1>3, <1>4, <2>2 DEF IsPaper
<1>7. /\ t \in Seq(X) /\ Len(t) = l + a
      /\ \A j \in 1 .. l : t[j] = g[j]
      /\ \A j \in 1 .. a : t[l + j] = w[b + j - 1]
  <2>1. Laid(X, g, w, b, a, n)
    BY <1>2 DEF Laid
  <2>2. IsPaper(X, OnPaper(g, w, b, a), Len(g), g, w, b, a)
    BY ONLY <2>1, PaperIs
  <2> QED BY ONLY <1>3, <1>5, <2>2 DEF IsPaper
<1>8. PICK u : u = [s EXCEPT ![l + p + 1] = x]
  OBVIOUS
<1>9. l + p + 1 \in 1 .. Len(s)
  BY ONLY <1>6, <1>3, a \in Nat, p \in 0 .. a - 1
<1>10. /\ u \in Seq(X) /\ Len(u) = Len(s)
       /\ \A j \in 1 .. Len(s) : u[j] = IF j = l + p + 1 THEN x ELSE s[j]
  BY ONLY <1>6, <1>8, <1>9, x \in X, ExceptSeq
<1>11. ASSUME NEW j \in 1 .. l + a PROVE t[j] = u[j]
  <2>1. CASE j <= l
    BY ONLY <1>3, <1>6, <1>7, <1>10, <2>1, j \in 1 .. l + a, a \in Nat, p \in 0 .. a - 1
  <2>2. CASE j > l
    <3>1. PICK i \in 1 .. a : j = l + i
      <4>1. j - l \in 1 .. a /\ j = l + (j - l)
        BY ONLY <1>3, <2>2, a \in Nat, j \in 1 .. l + a
      <4> QED BY <4>1
    <3>2. b + i - 1 \in 0 .. n - 1 /\ (b + i - 1 = b + p <=> j = l + p + 1)
      BY ONLY <1>3, <3>1, a \in Nat, b \in Nat, n \in Nat, b + a <= n, p \in 0 .. a - 1
    <3> QED BY ONLY <1>2, <1>6, <1>7, <1>10, <3>1, <3>2, j \in 1 .. l + a
  <2> QED BY ONLY <2>1, <2>2, <1>3, a \in Nat, j \in 1 .. l + a
<1>12. t = u
  BY ONLY <1>6, <1>7, <1>10, <1>11, SeqEqual
<1> QED BY ONLY <1>1, <1>3, <1>4, <1>5, <1>8, <1>12

\* The screen moves up one row of c cells: the row at the top leaves it, and blanks are
\* added at its end.
Scrolled(m, n, b, a, c, x) ==
    [p \in 0 .. n - 1 |-> IF p \in b + (a - c) .. b + a - 1 THEN x
                          ELSE IF p \in b .. b + a - c - 1 THEN m[p + c] ELSE m[p]]

ScrolledTo(g, m, n, b, a, c, pen, h, w) ==
    /\ w = Scrolled(m, n, b, a, c, <<" ", pen>>)
    /\ h = g \o [j \in 1 .. c |-> m[b + j - 1]]

LongerBy(X, g, m, n, b, a, c, pen, h, w) ==
    /\ w \in [0 .. n - 1 -> X] /\ h \in Seq(X) /\ Len(h) = Len(g) + c
    /\ OnPaper(h, w, b, a) = OnPaper(g, m, b, a) \o BlankRow(c, pen)

LEMMA PaperScrolled ==
    ASSUME NEW X, NEW g, NEW m, NEW b, NEW a, NEW n, Laid(X, g, m, b, a, n), NEW c \in Nat, c <= a,
           NEW pen, <<" ", pen>> \in X, NEW h, NEW w, ScrolledTo(g, m, n, b, a, c, pen, h, w)
    PROVE  LongerBy(X, g, m, n, b, a, c, pen, h, w)
<1> g \in Seq(X) /\ a \in Nat /\ b \in Nat /\ n \in Nat /\ b + a <= n /\ m \in [0 .. n - 1 -> X]
  BY DEF Laid
<1> /\ w = Scrolled(m, n, b, a, c, <<" ", pen>>)
    /\ h = g \o [j \in 1 .. c |-> m[b + j - 1]]
  BY DEF ScrolledTo
<1>1. PICK x \in X : x = <<" ", pen>>
  OBVIOUS
<1>2. /\ w \in [0 .. n - 1 -> X]
      /\ \A p \in 0 .. n - 1 :
            w[p] = IF p \in b + (a - c) .. b + a - 1 THEN x
                   ELSE IF p \in b .. b + a - c - 1 THEN m[p + c] ELSE m[p]
  <2>1. \A p \in 0 .. n - 1 : p \in b .. b + a - c - 1 => p + c \in 0 .. n - 1
    BY ONLY a \in Nat, b \in Nat, c \in Nat, n \in Nat, b + a <= n
  <2> QED BY <1>1, <2>1 DEF Scrolled
<1>3. PICK l \in Nat : l = Len(g)
  BY LenProperties
<1>4. h = OnPaper(g, m, b, c) /\ Laid(X, g, m, b, c, n)
  <2>1. h = OnPaper(g, m, b, c)
    BY DEF OnPaper
  <2>2. b + c <= n
    BY ONLY a \in Nat, b \in Nat, c \in Nat, n \in Nat, b + a <= n, c <= a
  <2> QED BY <2>1, <2>2 DEF Laid
<1>5. /\ h \in Seq(X) /\ Len(h) = l + c
      /\ \A j \in 1 .. l : h[j] = g[j]
      /\ \A j \in 1 .. c : h[l + j] = m[b + j - 1]
  <2>1. IsPaper(X, OnPaper(g, m, b, c), Len(g), g, m, b, c)
    BY ONLY <1>4, PaperIs
  <2> QED BY ONLY <1>3, <1>4, <2>1 DEF IsPaper
<1>6. PICK s : s = OnPaper(g, m, b, a)
  OBVIOUS
<1>7. PICK t : t = OnPaper(h, w, b, a)
  OBVIOUS
<1>8. /\ s \in Seq(X) /\ Len(s) = l + a
      /\ \A j \in 1 .. l : s[j] = g[j]
      /\ \A j \in 1 .. a : s[l + j] = m[b + j - 1]
  <2>1. Laid(X, g, m, b, a, n)
    BY DEF Laid
  <2>2. IsPaper(X, OnPaper(g, m, b, a), Len(g), g, m, b, a)
    BY ONLY <2>1, PaperIs
  <2> QED BY ONLY <1>3, <1>6, <2>2 DEF IsPaper
<1>9. /\ t \in Seq(X) /\ Len(t) = l + c + a
      /\ \A j \in 1 .. l + c : t[j] = h[j]
      /\ \A j \in 1 .. a : t[l + c + j] = w[b + j - 1]
  <2>1. Laid(X, h, w, b, a, n)
    BY <1>2, <1>5 DEF Laid
  <2>2. IsPaper(X, OnPaper(h, w, b, a), Len(h), h, w, b, a)
    BY ONLY <2>1, PaperIs
  <2> QED BY ONLY <1>3, <1>5, <1>7, <2>2 DEF IsPaper
<1>10. PICK r : r = BlankRow(c, pen)
  OBVIOUS
<1>11. r \in Seq(X) /\ Len(r) = c /\ \A j \in 1 .. c : r[j] = x
  BY <1>1, <1>10, BlankRowIs
<1>12. PICK u : u = s \o r
  OBVIOUS
<1>13. /\ u \in Seq(X) /\ Len(u) = l + a + c
       /\ \A j \in 1 .. l + a + c : u[j] = IF j <= l + a THEN s[j] ELSE r[j - (l + a)]
  <2>1. /\ s \o r \in Seq(X) /\ Len(s \o r) = Len(s) + Len(r)
        /\ \A j \in 1 .. Len(s) + Len(r) :
              (s \o r)[j] = IF j <= Len(s) THEN s[j] ELSE r[j - Len(s)]
    BY ONLY <1>8, <1>11, ConcatProperties
  <2>2. Len(s) + Len(r) = l + a + c
    BY ONLY <1>8, <1>11
  <2> QED BY ONLY <1>8, <1>12, <2>1, <2>2
<1>14. ASSUME NEW j \in 1 .. l + c + a PROVE t[j] = u[j]
  <2>1. CASE j <= l
    BY ONLY <1>3, <1>5, <1>8, <1>9, <1>13, <2>1, j \in 1 .. l + c + a, a \in Nat, c \in Nat
  <2>2. CASE j > l /\ j <= l + c
    <3>1. PICK i \in 1 .. c : j = l + i
      <4>1. j - l \in 1 .. c /\ j = l + (j - l)
        BY ONLY <1>3, <2>2, c \in Nat, j \in 1 .. l + c + a, a \in Nat
      <4> QED BY <4>1
    <3>2. i \in 1 .. a /\ j <= l + a /\ j \in 1 .. l + c /\ j \in 1 .. l + a + c
      BY ONLY <1>3, <3>1, <2>2, a \in Nat, c \in Nat, c <= a
    <3> QED BY ONLY <1>5, <1>8, <1>9, <1>13, <3>1, <3>2
  <2>3. CASE j > l + c /\ j <= l + a
    <3>1. PICK i \in 1 .. a : j = l + c + i
      <4>1. j - l - c \in 1 .. a /\ j = l + c + (j - l - c)
        BY ONLY <1>3, <2>3, c \in Nat, j \in 1 .. l + c + a, a \in Nat
      <4> QED BY <4>1
    <3>2. /\ c + i \in 1 .. a /\ j = l + (c + i) /\ j \in 1 .. l + a + c
          /\ b + i - 1 \in 0 .. n - 1
          /\ ~(b + i - 1 \in b + (a - c) .. b + a - 1)
          /\ b + i - 1 \in b .. b + a - c - 1
          /\ (b + i - 1) + c = b + (c + i) - 1
      BY ONLY <1>3, <3>1, <2>3, a \in Nat, b \in Nat, c \in Nat, c <= a, n \in Nat, b + a <= n
    <3>3. t[j] = m[b + (c + i) - 1]
      BY ONLY <1>2, <1>9, <3>1, <3>2
    <3>4. u[j] = s[j] /\ s[j] = m[b + (c + i) - 1]
      BY ONLY <1>8, <1>13, <3>2, <2>3
    <3> QED BY ONLY <3>3, <3>4
  <2>4. CASE j > l + a
    <3>1. PICK i \in 1 .. a : j = l + c + i
      <4>1. j - l - c \in 1 .. a /\ j = l + c + (j - l - c)
        BY ONLY <1>3, <2>4, c \in Nat, j \in 1 .. l + c + a, a \in Nat, c <= a
      <4> QED BY <4>1
    <3>2. /\ j - (l + a) \in 1 .. c /\ j \in 1 .. l + a + c /\ ~(j <= l + a)
          /\ b + i - 1 \in 0 .. n - 1
          /\ b + i - 1 \in b + (a - c) .. b + a - 1
      BY ONLY <1>3, <3>1, <2>4, a \in Nat, b \in Nat, c \in Nat, c <= a, n \in Nat, b + a <= n
    <3>3. t[j] = x
      BY ONLY <1>2, <1>9, <3>1, <3>2
    <3>4. u[j] = r[j - (l + a)] /\ r[j - (l + a)] = x
      BY ONLY <1>11, <1>13, <3>2
    <3> QED BY ONLY <3>3, <3>4
  <2> QED BY ONLY <2>1, <2>2, <2>3, <2>4, <1>3, a \in Nat, c \in Nat, j \in 1 .. l + c + a
<1>15. t = u
  <2>1. Len(t) = Len(u) /\ Len(t) = l + c + a
    BY ONLY <1>3, <1>9, <1>13, a \in Nat, c \in Nat
  <2> QED BY ONLY <1>9, <1>13, <1>14, <2>1, SeqEqual
<1> QED BY ONLY <1>2, <1>3, <1>5, <1>6, <1>7, <1>10, <1>12, <1>15 DEF LongerBy

\* The whole screen is erased.
Wiped(m, n, b, a, x) == [p \in 0 .. n - 1 |-> IF p \in b .. b + a - 1 THEN x ELSE m[p]]

IsWiped(X, g, m, b, a, n, pen, w) ==
    /\ w \in [0 .. n - 1 -> X]
    /\ OnPaper(g, w, b, a) = SubSeq(OnPaper(g, m, b, a), 1, Len(g)) \o BlankRow(a, pen)
    /\ OnPaper(<<>>, w, b, a) = BlankRow(a, pen)

LEMMA PaperWiped ==
    ASSUME NEW X, NEW g, NEW m, NEW b, NEW a, NEW n, Laid(X, g, m, b, a, n),
           NEW pen, <<" ", pen>> \in X
    PROVE  IsWiped(X, g, m, b, a, n, pen, Wiped(m, n, b, a, <<" ", pen>>))
<1> g \in Seq(X) /\ a \in Nat /\ b \in Nat /\ n \in Nat /\ b + a <= n /\ m \in [0 .. n - 1 -> X]
  BY DEF Laid
<1>1. PICK x \in X : x = <<" ", pen>>
  OBVIOUS
<1>w. PICK w : w = Wiped(m, n, b, a, x)
  OBVIOUS
<1>2. /\ w \in [0 .. n - 1 -> X]
      /\ \A p \in 0 .. n - 1 : w[p] = IF p \in b .. b + a - 1 THEN x ELSE m[p]
  BY <1>w DEF Wiped
<1>3. PICK q : q = [p \in 1 .. a |-> w[b + p - 1]]
  OBVIOUS
<1>4. q = BlankRow(a, pen)
  <2>1. \A p \in 1 .. a : b + p - 1 \in b .. b + a - 1 /\ b + p - 1 \in 0 .. n - 1
    BY ONLY a \in Nat, b \in Nat, n \in Nat, b + a <= n
  <2>2. \A p \in 1 .. a : w[b + p - 1] = x
    BY ONLY <1>2, <2>1
  <2>3. q = [p \in 1 .. a |-> x]
    BY ONLY <1>3, <2>2
  <2> QED BY ONLY <1>1, <2>3 DEF BlankRow
<1>5. q \in Seq(X)
  BY <1>4, BlankRowIs
<1>6. PICK l \in Nat : l = Len(g)
  BY LenProperties
<1>7. PICK s : s = OnPaper(g, m, b, a)
  OBVIOUS
<1>8. s \in Seq(X) /\ Len(s) = l + a /\ \A j \in 1 .. l : s[j] = g[j]
  <2>1. Laid(X, g, m, b, a, n)
    BY DEF Laid
  <2>2. IsPaper(X, OnPaper(g, m, b, a), Len(g), g, m, b, a)
    BY ONLY <2>1, PaperIs
  <2> QED BY ONLY <1>6, <1>7, <2>2 DEF IsPaper
<1>9. SubSeq(s, 1, l) = g
  <2>1. s \in Seq(X) /\ g \in Seq(X) /\ a \in Nat /\ l \in Nat /\ Len(s) = l + a /\ Len(g) = l
    BY ONLY <1>6, <1>8, g \in Seq(X), a \in Nat
  <2>2. PICK v : v = SubSeq(s, 1, l)
    OBVIOUS
  <2>3. v \in Seq(X) /\ Len(v) = l /\ \A j \in 1 .. l : v[j] = s[j]
    BY ONLY <2>1, <2>2
  <2>4. Len(v) = l /\ \A j \in 1 .. l : v[j] = g[j]
    BY ONLY <1>8, <2>3
  <2>5. v = g
    BY ONLY <1>6, <2>3, <2>4, g \in Seq(X), SeqEqual
  <2> QED BY ONLY <2>2, <2>5
<1>10. <<>> \o q = q
  BY ONLY <1>5, ConcatEmptySeq
<1> QED BY <1>1, <1>w, <1>2, <1>3, <1>4, <1>6, <1>7, <1>9, <1>10 DEF OnPaper, IsWiped

-----------------------------------------------------------------------------
(* The operations on a console as commands to a sheet of paper.            *)

Cells  == {" ", "x"} \X Pens
WriteStates == {"NOMAL", "ESC", "SQUARE"}
Record == [base : Nat, row : Nat, col : Nat, old_row : Nat, old_col : Nat, pen : Pens,
           write_state : WriteStates,
           param : [0 .. ESC_PARAM_MAX - 1 -> Nat], index : Nat]

\* A console in the display memory, with its cursors on the screen.
OnScreen(k) == k.row < ROWS /\ k.col < COLS /\ k.old_row < ROWS /\ k.old_col < COLS

Rows(g) == \E r \in Nat : Len(g) = r * COLS

Sound(s) ==
    /\ s \in [k : Record, m : [Memory -> Cells], g : Seq(Cells)]
    /\ s.k.base + AREA <= CONSOLE_NR * AREA
    /\ OnScreen(s.k) /\ Rows(s.g)

Text(s) == OnPaper(s.g, s.m, s.k.base, AREA)
At(s)   == Len(s.g) + s.k.row * COLS + s.k.col

\* Outside the screen of s the memory is as it was.
Within(s, t) ==
    \A p \in Memory : p \notin s.k.base .. s.k.base + AREA - 1 => t.m[p] = s.m[p]

\* From s to t the cursor goes to place p of the paper x, nothing else changes.
Moves(s, t, x, p) ==
    /\ Sound(t) /\ Within(s, t)
    /\ t.k = [s.k EXCEPT !.row = t.k.row, !.col = t.k.col]
    /\ At(t) = p
    /\ Text(t) = IF p < Len(x) THEN x ELSE x \o BlankRow(COLS, s.k.pen)

\* A product grows with its first factor.
LEMMA Times ==
    ASSUME NEW a \in Nat, NEW b \in Nat, NEW n \in Nat, a < b
    PROVE  a * n \in Nat /\ a * n + n <= b * n
<1>1. PICK e \in Nat : b = a + 1 + e
  <2>1. b - a - 1 \in Nat /\ b = a + 1 + (b - a - 1)
    OBVIOUS
  <2> QED BY <2>1
<1>2. b * n = a * n + n + e * n /\ e * n \in Nat
  BY <1>1
<1>3. a * n \in Nat /\ b * n \in Nat
  OBVIOUS
<1> QED BY <1>2, <1>3

LEMMA Measures ==
    /\ ROWS \in Nat \ {0} /\ COLS \in Nat \ {0} /\ COLS > 1 /\ CONSOLE_NR \in Nat \ {0}
    /\ ESC_PARAM_MAX \in Nat /\ ESC_PARAM_MAX > 1
    /\ AREA = ROWS * COLS /\ AREA \in Nat /\ AREA >= COLS
    /\ (ROWS - 1) * COLS = AREA - COLS /\ CONSOLE_NR * AREA \in Nat
<1>1. /\ ROWS \in Nat \ {0} /\ COLS \in Nat \ {0} /\ COLS > 1 /\ CONSOLE_NR \in Nat \ {0}
      /\ ESC_PARAM_MAX \in Nat /\ ESC_PARAM_MAX > 1
  BY SizeAssumption
<1>2. AREA = ROWS * COLS /\ AREA \in Nat
  BY <1>1 DEF AREA
<1>3. (ROWS - 1) * COLS = ROWS * COLS - COLS /\ (ROWS - 1) * COLS \in Nat
  <2>1. PICK r \in Nat : ROWS = r + 1
    BY <1>1, ROWS - 1 \in Nat
  <2>2. ROWS * COLS = r * COLS + COLS /\ r * COLS \in Nat /\ ROWS - 1 = r
    BY <1>1, <2>1
  <2> QED BY <1>1, <2>2
<1>4. CONSOLE_NR * AREA \in Nat
  BY <1>1, <1>2
<1> QED BY <1>1, <1>2, <1>3, <1>4

\* The places of the screen.
LEMMA PlaceOnScreen ==
    ASSUME NEW r \in Nat, NEW c \in Nat, r < ROWS, c < COLS
    PROVE  /\ r * COLS \in Nat /\ r * COLS + c \in 0 .. AREA - 1
           /\ r + 1 < ROWS => r * COLS + COLS + c < AREA
           /\ r + 1 >= ROWS => r * COLS = AREA - COLS
<1>1. r * COLS + COLS <= ROWS * COLS /\ r * COLS \in Nat
  BY Measures, Times
<1>2. r * COLS + c \in 0 .. AREA - 1
  BY <1>1, Measures
<1>3. ASSUME r + 1 < ROWS PROVE r * COLS + COLS + c < AREA
  <2>1. (r + 1) * COLS + COLS <= ROWS * COLS /\ (r + 1) * COLS \in Nat
    BY <1>3, Measures, Times, r + 1 \in Nat
  <2>2. (r + 1) * COLS = r * COLS + COLS
    BY Measures
  <2> QED BY <1>1, <2>1, <2>2, Measures
<1>4. ASSUME r + 1 >= ROWS PROVE r * COLS = AREA - COLS
  <2>1. r = ROWS - 1
    BY <1>4, Measures
  <2> QED BY <2>1, Measures
<1> QED BY <1>1, <1>2, <1>3, <1>4

LEMMA SoundFields ==
    ASSUME NEW s, Sound(s)
    PROVE  /\ s.k \in Record /\ s.m \in [Memory -> Cells] /\ s.g \in Seq(Cells)
           /\ s.k.base \in Nat /\ s.k.row \in Nat /\ s.k.col \in Nat /\ s.k.pen \in Pens
           /\ s.k.old_row \in Nat /\ s.k.old_col \in Nat
           /\ s.k.row < ROWS /\ s.k.col < COLS /\ s.k.old_row < ROWS /\ s.k.old_col < COLS
           /\ s.k.base + AREA <= CONSOLE_NR * AREA
<1>1. s.k \in Record /\ s.m \in [Memory -> Cells] /\ s.g \in Seq(Cells)
  BY DEF Sound
<1>2. /\ s.k.base \in Nat /\ s.k.row \in Nat /\ s.k.col \in Nat /\ s.k.pen \in Pens
      /\ s.k.old_row \in Nat /\ s.k.old_col \in Nat
  BY ONLY <1>1 DEF Record
<1> QED BY <1>1, <1>2 DEF Sound, OnScreen

\* The paper of a console, and the place of its cursor on it.
LEMMA SoundPaper ==
    ASSUME NEW s, Sound(s)
    PROVE  /\ Laid(Cells, s.g, s.m, s.k.base, AREA, CONSOLE_NR * AREA)
           /\ Len(s.g) \in Nat /\ s.k.row * COLS \in Nat
           /\ s.k.row * COLS + s.k.col \in 0 .. AREA - 1
           /\ Text(s) \in Seq(Cells) /\ Len(Text(s)) = Len(s.g) + AREA
           /\ At(s) = Len(s.g) + s.k.row * COLS + s.k.col
           /\ At(s) \in Nat /\ At(s) < Len(Text(s)) /\ Len(s.g) <= At(s)
           /\ \A p \in Pens : <<" ", p>> \in Cells /\ <<"x", p>> \in Cells
<1>1. Laid(Cells, s.g, s.m, s.k.base, AREA, CONSOLE_NR * AREA)
  BY SoundFields, Measures DEF Laid, Memory
<1>2. IsPaper(Cells, Text(s), Len(s.g), s.g, s.m, s.k.base, AREA)
  BY <1>1, PaperIs DEF Text
<1>3. Text(s) \in Seq(Cells) /\ Len(Text(s)) = Len(s.g) + AREA /\ Len(s.g) \in Nat
  BY ONLY <1>2 DEF IsPaper
<1>4. s.k.row * COLS \in Nat /\ s.k.row * COLS + s.k.col \in 0 .. AREA - 1
  BY SoundFields, PlaceOnScreen
<1>5. At(s) = Len(s.g) + s.k.row * COLS + s.k.col
  BY DEF At
<1>6. At(s) \in Nat /\ At(s) < Len(Text(s)) /\ Len(s.g) <= At(s)
  <2>1. PICK q : q = s.k.row * COLS
    OBVIOUS
  <2>2. q \in Nat /\ q + s.k.col \in 0 .. AREA - 1 /\ s.k.col \in Nat /\ AREA \in Nat
    BY <1>4, <2>1, Measures, SoundFields
  <2>3. PICK l, c, n : l = Len(s.g) /\ c = s.k.col /\ n = Len(Text(s))
    OBVIOUS
  <2>4. At(s) = l + q + c
    BY <1>5, <2>1, <2>3
  <2>5. l \in Nat /\ q \in Nat /\ c \in Nat /\ n = l + AREA /\ q + c \in 0 .. AREA - 1
    BY <1>3, <2>2, <2>3
  <2>6. l + q + c \in Nat /\ l + q + c < n /\ l <= l + q + c
    BY ONLY <2>2, <2>5
  <2> QED BY ONLY <2>3, <2>4, <2>6
<1>7. \A p \in Pens : <<" ", p>> \in Cells /\ <<"x", p>> \in Cells
  BY DEF Cells
<1> QED BY <1>1, <1>3, <1>4, <1>5, <1>6, <1>7

\* The cursor is put on another place of the screen.
LEMMA PlacedMoves ==
    ASSUME NEW s, Sound(s), NEW r \in Nat, NEW c \in Nat, r < ROWS, c < COLS,
           NEW t, t = [s EXCEPT !.k.row = r, !.k.col = c]
    PROVE  Moves(s, t, Text(s), Len(s.g) + r * COLS + c)
<1>1. s \in [k : Record, m : [Memory -> Cells], g : Seq(Cells)]
  BY DEF Sound
<1>2. t.m = s.m /\ t.g = s.g /\ t.k = [s.k EXCEPT !.row = r, !.col = c]
  BY <1>1
<1>3. t.k \in Record /\ t.k.row = r /\ t.k.col = c
      /\ t.k.base = s.k.base /\ t.k.old_row = s.k.old_row /\ t.k.old_col = s.k.old_col
  BY ONLY <1>2, SoundFields, Sound(s), r \in Nat, c \in Nat DEF Record
<1>4. t \in [k : Record, m : [Memory -> Cells], g : Seq(Cells)]
  BY ONLY <1>1, <1>3, t = [s EXCEPT !.k.row = r, !.k.col = c] DEF Record
<1>5. Sound(t)
  BY <1>2, <1>3, <1>4, SoundFields DEF Sound, OnScreen
<1>6. Text(t) = Text(s) /\ At(t) = Len(s.g) + r * COLS + c
  BY <1>2, <1>3 DEF Text, At
<1>7. At(t) < Len(Text(t))
  BY <1>5, SoundPaper
<1>8. Within(s, t) /\ t.k = [s.k EXCEPT !.row = t.k.row, !.col = t.k.col]
  BY <1>2, <1>3 DEF Within
<1> QED BY <1>5, <1>6, <1>7, <1>8 DEF Moves

\* s EXCEPT its row or its column.
LEMMA RowOrColumn ==
    ASSUME NEW s, Sound(s), NEW x
    PROVE  /\ [s EXCEPT !.k.col = x] = [s EXCEPT !.k.row = s.k.row, !.k.col = x]
           /\ [s EXCEPT !.k.row = x] = [s EXCEPT !.k.row = x, !.k.col = s.k.col]
<1>1. PICK k \in Record : k = s.k
  BY DEF Sound
<1>2. /\ [k EXCEPT !.col = x] = [k EXCEPT !.row = k.row, !.col = x]
      /\ [k EXCEPT !.row = x] = [k EXCEPT !.row = x, !.col = k.col]
  BY ONLY k \in Record DEF Record
<1>3. \A y : [s EXCEPT !.k = y] = [s EXCEPT !.k = y]
  OBVIOUS
<1>4. s \in [k : Record, m : [Memory -> Cells], g : Seq(Cells)]
  BY DEF Sound
<1> QED BY ONLY <1>1, <1>2, <1>4

\* Two moves, the first of which adds no row.
LEMMA MovesTwice ==
    ASSUME NEW s, NEW t, NEW u, NEW x, NEW p, NEW q, Sound(s),
           Moves(s, t, x, p), p < Len(x), Moves(t, u, x, q)
    PROVE  Moves(s, u, x, q) /\ Text(t) = x /\ At(t) = p
<1>1. Text(t) = x /\ At(t) = p
  BY DEF Moves
<1>2. s.k \in Record /\ t.k = [s.k EXCEPT !.row = t.k.row, !.col = t.k.col]
      /\ u.k = [t.k EXCEPT !.row = u.k.row, !.col = u.k.col]
  BY SoundFields DEF Moves
<1>3. t.k.base = s.k.base /\ t.k.pen = s.k.pen
      /\ u.k = [s.k EXCEPT !.row = u.k.row, !.col = u.k.col]
  BY ONLY <1>2 DEF Record
<1>4. Within(s, u)
  <2>1. Within(s, t) /\ Within(t, u)
    BY DEF Moves
  <2> QED BY ONLY <1>3, <2>1 DEF Within
<1> QED BY <1>1, <1>3, <1>4 DEF Moves

LEMMA Column0Moves ==
    ASSUME NEW s, Sound(s)
    PROVE  Moves(s, mov_to_col0(s), Text(s), At(s) - s.k.col)
<1>1. mov_to_col0(s) = [s EXCEPT !.k.row = s.k.row, !.k.col = 0]
  BY RowOrColumn DEF mov_to_col0
<1>2. Moves(s, mov_to_col0(s), Text(s), Len(s.g) + s.k.row * COLS + 0)
  <2>1. 0 \in Nat /\ 0 < COLS /\ s.k.row \in Nat /\ s.k.row < ROWS
    BY SoundFields, Measures
  <2> QED BY ONLY <1>1, <2>1, Sound(s), PlacedMoves
<1>3. Len(s.g) + s.k.row * COLS + 0 = At(s) - s.k.col
  <2>1. PICK l, q, c : l = Len(s.g) /\ q = s.k.row * COLS /\ c = s.k.col
    OBVIOUS
  <2>2. l \in Nat /\ q \in Nat /\ c \in Nat /\ At(s) = l + q + c
    BY <2>1, SoundPaper, SoundFields
  <2>3. l + q + 0 = (l + q + c) - c
    BY ONLY <2>2
  <2> QED BY ONLY <2>1, <2>2, <2>3
<1> QED BY <1>2, <1>3

\* scroll_up after the row was incremented: the state and the memory it leaves.
LEMMA ScrollUpIs ==
    ASSUME NEW s, Sound(s), NEW u, u = scroll_up([s EXCEPT !.k.row = @ + 1])
    PROVE  /\ u \in [k : Record, m : {u.m}, g : {u.g}] /\ u.k = s.k
           /\ u.m = Scrolled(s.m, CONSOLE_NR * AREA, s.k.base, AREA, COLS, <<" ", s.k.pen>>)
           /\ u.g = s.g \o [j \in 1 .. COLS |-> s.m[s.k.base + j - 1]]
<1>1. PICK k : k = s.k
  OBVIOUS
<1>2. k \in Record /\ s \in [k : Record, m : [Memory -> Cells], g : Seq(Cells)]
  BY <1>1 DEF Sound
<1>3. PICK t : t = [s EXCEPT !.k.row = @ + 1]
  OBVIOUS
<1>4. /\ t.m = s.m /\ t.g = s.g /\ t.k = [k EXCEPT !.row = @ + 1]
      /\ DOMAIN t = {"k", "m", "g"} /\ t = [t EXCEPT !.k = t.k]
  BY ONLY <1>1, <1>2, <1>3
<1>5. t.k.base = k.base /\ t.k.pen = k.pen /\ t.k.row = k.row + 1 /\ t.k \in Record
  <2>1. k.row \in Nat /\ k.row + 1 \in Nat
    BY ONLY SMTT(40), <1>2 DEF Record
  <2>2. PICK r \in Nat : r = k.row + 1
    BY <2>1
  <2>3. t.k = [k EXCEPT !.row = r]
    BY ONLY <1>4, <2>2
  <2> QED BY ONLY <1>2, <2>2, <2>3 DEF Record
<1>6. PICK row, m1 :
         /\ row = [j \in 1 .. COLS |-> t.m[t.k.base + j - 1]]
         /\ m1 = [p \in Memory |->
                    IF p \in t.k.base .. t.k.base + AREA - COLS - 1 THEN t.m[p + COLS] ELSE t.m[p]]
  OBVIOUS
<1>7. PICK up : up = [t EXCEPT !.m = m1, !.g = @ \o row]
  OBVIOUS
<1>8. up.k = t.k /\ up.m = m1 /\ up.g = s.g \o row /\ DOMAIN up = {"k", "m", "g"}
  BY ONLY <1>4, <1>7
<1>9. PICK m2 : m2 = [p \in Memory |->
                 IF p \in k.base + COLS * (ROWS - 1) .. k.base + COLS * ((ROWS - 1) + 1) - 1
                 THEN <<" ", k.pen>> ELSE m1[p]]
  OBVIOUS
<1>10. u = [[up EXCEPT !.m = m2] EXCEPT !.k.row = @ - 1]
  <2>1. up = copy_rows(t)
    BY ONLY <1>6, <1>7 DEF copy_rows, Base
  <2>3. u = [erease_rows(up, ROWS - 1, ROWS - 1) EXCEPT !.k.row = @ - 1]
    BY ONLY <1>3, <2>1, u = scroll_up([s EXCEPT !.k.row = @ + 1]) DEF scroll_up
  <2>2. erease_rows(up, ROWS - 1, ROWS - 1) = [up EXCEPT !.m = m2]
    BY ONLY <1>5, <1>8, <1>9 DEF erease_rows, Base
  <2> QED BY ONLY <2>2, <2>3
<1>11. /\ u.m = m2 /\ u.g = s.g \o row /\ u.k = [t.k EXCEPT !.row = @ - 1]
       /\ u \in [k : {u.k}, m : {u.m}, g : {u.g}]
  BY ONLY <1>8, <1>10
<1>12. u.k = k
  <2>1. k.row \in Nat /\ (k.row + 1) - 1 = k.row
    BY ONLY <1>2 DEF Record
  <2>2. PICK r : r = k.row + 1
    OBVIOUS
  <2>3. u.k = [[k EXCEPT !.row = r] EXCEPT !.row = r - 1] /\ r - 1 = k.row
    BY ONLY <1>4, <1>5, <1>11, <2>1, <2>2
  <2>4. u.k = [k EXCEPT !.row = k.row]
    BY ONLY <1>2, <2>3 DEF Record
  <2> QED BY ONLY <1>2, <2>4 DEF Record
<1>13. m2 = Scrolled(s.m, CONSOLE_NR * AREA, k.base, AREA, COLS, <<" ", k.pen>>)
  <2>1. COLS * (ROWS - 1) = AREA - COLS /\ COLS * ((ROWS - 1) + 1) = AREA
    BY Measures
  <2>2. m1 = [p \in Memory |->
                 IF p \in k.base .. k.base + AREA - COLS - 1 THEN s.m[p + COLS] ELSE s.m[p]]
    BY ONLY <1>4, <1>5, <1>6
  <2> QED BY ONLY <1>9, <2>1, <2>2 DEF Scrolled, Memory
<1>14. row = [j \in 1 .. COLS |-> s.m[k.base + j - 1]]
  BY ONLY <1>4, <1>5, <1>6
<1> QED BY ONLY <1>1, <1>2, <1>11, <1>12, <1>13, <1>14

LEMMA NextRowMoves ==
    ASSUME NEW s, Sound(s)
    PROVE  Moves(s, mov_next_row(s), Text(s), At(s) + COLS)
<1>1. PICK t : t = [s EXCEPT !.k.row = @ + 1]
  OBVIOUS
<1>2. t.k.row = s.k.row + 1
  BY <1>1 DEF Sound, Record
<1>3. PICK l, q, c, n : l = Len(s.g) /\ q = s.k.row * COLS /\ c = s.k.col /\ n = Len(Text(s))
  OBVIOUS
<1>4. /\ l \in Nat /\ q \in Nat /\ c \in Nat /\ At(s) = l + q + c /\ n = l + AREA
      /\ q + c \in 0 .. AREA - 1 /\ s.k.row \in Nat
  BY <1>3, SoundPaper, SoundFields
<1>5. CASE s.k.row + 1 < ROWS
  <2>1. mov_next_row(s) = t
    BY SMTT(40), <1>1, <1>2, <1>5, Measures, SoundFields DEF mov_next_row
  <2>2. t = [s EXCEPT !.k.row = s.k.row + 1, !.k.col = s.k.col]
    BY <1>1, RowOrColumn
  <2>3. s.k.row + 1 \in Nat /\ s.k.col \in Nat /\ s.k.row + 1 < ROWS /\ s.k.col < COLS
    BY <1>5, SoundFields
  <2>4. Moves(s, t, Text(s), Len(s.g) + (s.k.row + 1) * COLS + s.k.col)
    BY ONLY <2>2, <2>3, Sound(s), PlacedMoves
  <2>5. (s.k.row + 1) * COLS = q + COLS
    BY SMTT(40), <1>3, <1>4, Measures
  <2>6. l + (q + COLS) + c = (l + q + c) + COLS
    BY ONLY <1>4, Measures
  <2>7. Len(s.g) + (s.k.row + 1) * COLS + s.k.col = At(s) + COLS
    BY ONLY <1>3, <1>4, <2>5, <2>6
  <2> QED BY ONLY <2>1, <2>4, <2>7
<1>6. CASE s.k.row + 1 >= ROWS
  <2>1. PICK u : u = scroll_up(t)
    OBVIOUS
  <2>2. mov_next_row(s) = u
    BY <1>1, <1>2, <1>6, <2>1 DEF mov_next_row
  <2>3. /\ u \in [k : Record, m : {u.m}, g : {u.g}] /\ u.k = s.k
        /\ u.m = Scrolled(s.m, CONSOLE_NR * AREA, s.k.base, AREA, COLS, <<" ", s.k.pen>>)
        /\ u.g = s.g \o [j \in 1 .. COLS |-> s.m[s.k.base + j - 1]]
    BY ONLY <1>1, <2>1, Sound(s), ScrollUpIs
  <2>4. /\ u.m \in [0 .. CONSOLE_NR * AREA - 1 -> Cells] /\ u.g \in Seq(Cells)
        /\ Len(u.g) = l + COLS
        /\ OnPaper(u.g, u.m, s.k.base, AREA) = Text(s) \o BlankRow(COLS, s.k.pen)
    <3>1. Laid(Cells, s.g, s.m, s.k.base, AREA, CONSOLE_NR * AREA)
      BY SoundPaper
    <3>2. COLS \in Nat /\ COLS <= AREA /\ <<" ", s.k.pen>> \in Cells
      BY Measures, SoundFields, SoundPaper
    <3>3. PICK b, z, x, h, w :
             /\ b = s.k.base /\ z = CONSOLE_NR * AREA /\ x = s.k.pen /\ h = u.g /\ w = u.m
      OBVIOUS
    <3>4. Laid(Cells, s.g, s.m, b, AREA, z) /\ <<" ", x>> \in Cells
      BY ONLY <3>1, <3>2, <3>3
    <3>5. ScrolledTo(s.g, s.m, z, b, AREA, COLS, x, h, w)
      BY ONLY <2>3, <3>3 DEF ScrolledTo
    <3>6. LongerBy(Cells, s.g, s.m, z, b, AREA, COLS, x, h, w)
      BY ONLY <3>2, <3>4, <3>5, PaperScrolled
    <3> QED BY ONLY <1>3, <3>3, <3>6 DEF Text, LongerBy
  <2>5. Sound(u)
    <3>1. u \in [k : Record, m : [Memory -> Cells], g : Seq(Cells)]
      BY ONLY <2>3, <2>4 DEF Memory
    <3>2. Rows(u.g)
      <4>1. PICK r \in Nat : l = r * COLS
        BY <1>3 DEF Sound, Rows
      <4>2. (r + 1) * COLS = r * COLS + COLS /\ r + 1 \in Nat
        BY SMTT(40), Measures
      <4> QED BY ONLY <2>4, <4>1, <4>2 DEF Rows
    <3> QED BY ZenonT(60), <2>3, <3>1, <3>2 DEF Sound
  <2>6. Text(u) = Text(s) \o BlankRow(COLS, s.k.pen)
    BY ONLY <2>3, <2>4 DEF Text
  <2>7. At(u) = At(s) + COLS
    <3>1. At(u) = l + COLS + q + c
      BY ONLY <1>3, <2>3, <2>4 DEF At
    <3>2. l + COLS + q + c = (l + q + c) + COLS
      BY ONLY <1>4, Measures
    <3> QED BY ONLY SMTT(40), <1>4, <3>1, <3>2
  <2>8. ~(At(s) + COLS < n)
    <3>1. q = AREA - COLS
      BY <1>3, <1>6, SoundFields, PlaceOnScreen
    <3> QED BY ONLY <1>4, <3>1, Measures
  <2>9. Within(s, u)
    <3> SUFFICES ASSUME NEW p \in Memory, p \notin s.k.base .. s.k.base + AREA - 1
                 PROVE  u.m[p] = s.m[p]
      BY DEF Within
    <3>1. PICK b : b = s.k.base
      OBVIOUS
    <3>2. /\ p \notin b + (AREA - COLS) .. b + AREA - 1
          /\ p \notin b .. b + AREA - COLS - 1
      <4>1. b \in Nat /\ p \in Int
        BY <3>1, SoundFields, Measures DEF Memory
      <4>2. p \notin b .. b + AREA - 1
        BY <3>1
      <4> QED BY ONLY <4>1, <4>2, Measures
    <3> QED BY ONLY <2>3, <3>1, <3>2, p \in Memory DEF Scrolled, Memory
  <2>10. u.k = [s.k EXCEPT !.row = u.k.row, !.col = u.k.col]
    BY ONLY <2>3, SoundFields, Sound(s) DEF Record
  <2> QED BY ONLY <1>3, <2>2, <2>5, <2>6, <2>7, <2>8, <2>9, <2>10 DEF Moves
<1> QED BY ONLY <1>4, <1>5, <1>6, Measures

LEMMA ForwardMoves ==
    ASSUME NEW s, Sound(s)
    PROVE  Moves(s, move_forward(s), Text(s), At(s) + 1)
<1>1. PICK l, q, c, n : l = Len(s.g) /\ q = s.k.row * COLS /\ c = s.k.col /\ n = Len(Text(s))
  OBVIOUS
<1>2. /\ l \in Nat /\ q \in Nat /\ c \in Nat /\ At(s) = l + q + c /\ n = l + AREA
      /\ q + c \in 0 .. AREA - 1 /\ c < COLS /\ s.k.row \in Nat /\ s.k.row < ROWS
  BY <1>1, SoundPaper, SoundFields
<1>3. CASE c + 1 >= COLS
  <2>1. PICK t : t = mov_to_col0(s)
    OBVIOUS
  <2>2. Moves(s, t, Text(s), At(s) - c)
    BY <1>1, <2>1, Column0Moves
  <2>3. Sound(t) /\ At(s) - c < n
    <3>1. Sound(t)
      BY ONLY <2>2 DEF Moves
    <3>2. (l + q + c) - c < l + AREA
      BY ONLY <1>2, Measures
    <3> QED BY ONLY <1>2, <3>1, <3>2
  <2>4. Text(t) = Text(s) /\ At(t) = At(s) - c
    BY ONLY <1>1, <2>2, <2>3 DEF Moves
  <2>5. Moves(t, mov_next_row(t), Text(s), At(s) - c + COLS)
    BY ONLY <2>3, <2>4, NextRowMoves
  <2>6. Moves(s, mov_next_row(t), Text(s), At(s) - c + COLS)
    BY ONLY <1>1, <2>2, <2>3, <2>5, Sound(s), MovesTwice
  <2>7. At(s) - c + COLS = At(s) + 1
    <3>1. c = COLS - 1
      BY ONLY <1>2, <1>3, Measures
    <3>2. (l + q + c) - c + COLS = (l + q + c) + 1
      BY ONLY <1>2, <3>1, Measures
    <3> QED BY ONLY <1>2, <3>2
  <2>8. move_forward(s) = mov_next_row(t)
    BY <1>1, <1>3, <2>1 DEF move_forward
  <2> QED BY ONLY <2>6, <2>7, <2>8
<1>4. CASE c + 1 < COLS
  <2>1. move_forward(s) = [s EXCEPT !.k.col = @ + 1]
    BY SMTT(40), <1>1, <1>2, <1>4, Measures DEF move_forward
  <2>2. move_forward(s) = [s EXCEPT !.k.row = s.k.row, !.k.col = c + 1]
    BY ZenonT(60), <1>1, <2>1, RowOrColumn
  <2>3. c + 1 \in Nat
    BY ONLY <1>2
  <2>4. Moves(s, move_forward(s), Text(s), Len(s.g) + s.k.row * COLS + (c + 1))
    BY ONLY <1>2, <1>4, <2>2, <2>3, Sound(s), PlacedMoves
  <2>5. l + q + (c + 1) = (l + q + c) + 1
    BY ONLY <1>2
  <2> QED BY ONLY <1>1, <1>2, <2>4, <2>5
<1> QED BY ONLY <1>2, <1>3, <1>4, Measures

LEMMA StayMoves ==
    ASSUME NEW s, Sound(s)
    PROVE  Moves(s, s, Text(s), At(s))
<1>1. s.k = [s.k EXCEPT !.row = s.k.row, !.col = s.k.col]
  BY ONLY SoundFields, Sound(s) DEF Record
<1> QED BY <1>1, SoundPaper DEF Moves, Within

\* One place back; the first cell of the screen is place Len(s.g) of the paper.
LEMMA BackwardMoves ==
    ASSUME NEW s, Sound(s)
    PROVE  /\ CanMoveBack(s) <=> At(s) > Len(s.g)
           /\ Moves(s, move_backward(s), Text(s), IF At(s) > Len(s.g) THEN At(s) - 1 ELSE At(s))
<1>1. PICK l, r, c : l = Len(s.g) /\ r = s.k.row /\ c = s.k.col
  OBVIOUS
<1>2. /\ l \in Nat /\ r \in Nat /\ c \in Nat /\ r * COLS \in Nat
      /\ At(s) = l + r * COLS + c /\ r < ROWS /\ c < COLS
  BY <1>1, SoundPaper, SoundFields
<1>3. CASE c > 0
  <2>1. CanMoveBack(s) /\ move_backward(s) = [s EXCEPT !.k.row = r, !.k.col = c - 1]
    BY ZenonT(60), <1>1, <1>3, RowOrColumn DEF CanMoveBack, move_backward
  <2>2. c - 1 \in Nat /\ c - 1 < COLS
    BY ONLY <1>2, <1>3, Measures
  <2>3. Moves(s, move_backward(s), Text(s), Len(s.g) + r * COLS + (c - 1))
    BY ONLY <1>2, <2>1, <2>2, Sound(s), PlacedMoves
  <2>4. PICK q \in Nat : q = r * COLS
    BY <1>2
  <2>5. l + q + (c - 1) = (l + q + c) - 1 /\ l + q + c > l
    BY ONLY <1>2, <1>3, <2>4
  <2>6. l + r * COLS + (c - 1) = At(s) - 1 /\ At(s) > l
    BY ONLY <1>2, <2>4, <2>5
  <2> QED BY ONLY SMTT(40), <1>1, <2>1, <2>3, <2>6
<1>4. CASE ~(c > 0) /\ r > 0
  <2>1. CanMoveBack(s) /\ move_backward(s) = [s EXCEPT !.k.row = r - 1, !.k.col = COLS - 1]
    BY <1>1, <1>4 DEF CanMoveBack, move_backward
  <2>2. r - 1 \in Nat /\ r - 1 < ROWS /\ COLS - 1 \in Nat /\ COLS - 1 < COLS
    BY ONLY <1>2, <1>4, Measures
  <2>3. Moves(s, move_backward(s), Text(s), Len(s.g) + (r - 1) * COLS + (COLS - 1))
    BY ONLY <2>1, <2>2, Sound(s), PlacedMoves
  <2>4. PICK d \in Nat : r = d + 1
    BY <2>2, <1>2
  <2>5. PICK q \in Nat : q = d * COLS
    BY Measures
  <2>6. r * COLS = q + COLS /\ (r - 1) * COLS = q
    BY <2>4, <2>5, Measures
  <2>7. c = 0
    BY ONLY <1>2, <1>4
  <2>8. l + q + (COLS - 1) = (l + (q + COLS) + 0) - 1 /\ l + (q + COLS) + 0 > l
    BY ONLY <1>2, <2>5, Measures
  <2>9. l + (r - 1) * COLS + (COLS - 1) = At(s) - 1 /\ At(s) > l
    BY ONLY <1>2, <2>6, <2>7, <2>8
  <2> QED BY ONLY <1>1, <2>1, <2>3, <2>9
<1>5. CASE ~(c > 0) /\ ~(r > 0)
  <2>1. ~CanMoveBack(s) /\ move_backward(s) = s
    BY <1>1, <1>5 DEF CanMoveBack, move_backward
  <2>2. c = 0 /\ r = 0
    BY ONLY <1>2, <1>5
  <2>3. At(s) = l
    BY <1>2, <2>2, Measures
  <2> QED BY <1>1, <1>2, <2>1, <2>3, StayMoves
<1> QED BY <1>3, <1>4, <1>5

LEMMA GlyphIs == ASSUME NEW c PROVE Glyph(c) \in {" ", "x"}
BY DEF Glyph

LEMMA ShowMoves ==
    ASSUME NEW s, Sound(s), NEW c
    PROVE  Moves(s, show_char(s, c), [Text(s) EXCEPT ![At(s) + 1] = <<Glyph(c), s.k.pen>>], At(s) + 1)
<1>1. PICK p, e, w : /\ p = s.k.col + s.k.row * COLS
                     /\ e = <<Glyph(c), s.k.pen>> /\ w = [s.m EXCEPT ![s.k.base + p] = e]
  OBVIOUS
<1>2. /\ s.k.base \in Nat /\ s.k.col \in Nat /\ s.k.row * COLS \in Nat /\ p \in 0 .. AREA - 1
      /\ s.m \in [Memory -> Cells] /\ s.k.base + AREA <= CONSOLE_NR * AREA
      /\ e \in Cells
  <2>1. e \in Cells
    BY <1>1, GlyphIs, SoundFields DEF Cells
  <2>2. /\ s.k.base \in Nat /\ s.k.col \in Nat /\ s.m \in [Memory -> Cells]
        /\ s.k.base + AREA <= CONSOLE_NR * AREA
    BY SoundFields
  <2>3. PICK q, d : q = s.k.row * COLS /\ d = s.k.col
    OBVIOUS
  <2>4. q \in Nat /\ d \in Nat /\ q + d \in 0 .. AREA - 1
    BY <2>2, <2>3, SoundPaper
  <2>5. d + q \in 0 .. AREA - 1
    BY ONLY <2>4, Measures
  <2> QED BY ONLY <1>1, <2>1, <2>2, <2>3, <2>4, <2>5
<1>3. s.k.base + p \in Memory /\ s.k.base + s.k.col + s.k.row * COLS = s.k.base + p
  <2>1. PICK b, n, q : b = s.k.base /\ n = CONSOLE_NR * AREA /\ q = s.k.row * COLS
    OBVIOUS
  <2>2. /\ b \in Nat /\ n \in Nat /\ b + AREA <= n /\ p \in 0 .. AREA - 1 /\ AREA \in Nat
        /\ q \in Nat /\ s.k.col \in Nat /\ p = s.k.col + q
    BY <1>1, <1>2, <2>1, Measures
  <2>3. b + p \in 0 .. n - 1 /\ b + s.k.col + q = b + p
    BY ONLY <2>2
  <2> QED BY ONLY <2>1, <2>3 DEF Memory
<1>4. PICK t : t = [s EXCEPT !.m = w]
  OBVIOUS
<1>5. show_char(s, c) = move_forward(t)
  <2>1. PICK a : a = s.k.base + p
    OBVIOUS
  <2>2. a = Base(s) + s.k.col + s.k.row * COLS /\ a \in Memory
    BY ONLY <1>3, <2>1 DEF Base
  <2>3. [s EXCEPT !.m = IF a \in Memory THEN [@ EXCEPT ![a] = <<Glyph(c), s.k.pen>>] ELSE @] = t
    BY ONLY <1>1, <1>4, <2>1, <2>2
  <2> QED BY ONLY <2>2, <2>3 DEF show_char
<1>6. s \in [k : Record, m : [Memory -> Cells], g : Seq(Cells)]
  BY DEF Sound
<1>7. w \in [Memory -> Cells]
  BY ONLY <1>1, <1>2, <1>3
<1>8. t.k = s.k /\ t.m = w /\ t.g = s.g /\ t \in [k : Record, m : [Memory -> Cells], g : Seq(Cells)]
  BY ONLY <1>4, <1>6, <1>7
<1>9. Sound(t) /\ At(t) = At(s)
  BY <1>8 DEF Sound, At
<1>10. Text(t) = [Text(s) EXCEPT ![At(s) + 1] = e]
  <2>1. PICK b, n, g, m : b = s.k.base /\ n = CONSOLE_NR * AREA /\ g = s.g /\ m = s.m
    OBVIOUS
  <2>2. Laid(Cells, g, m, b, AREA, n)
    BY <2>1, SoundPaper
  <2>3. OnPaper(g, [m EXCEPT ![b + p] = e], b, AREA)
             = [OnPaper(g, m, b, AREA) EXCEPT ![Len(g) + p + 1] = e]
    BY ONLY <1>2, <2>2, PaperPut
  <2>4. Len(s.g) + p + 1 = At(s) + 1
    <3>1. PICK l, q : l = Len(s.g) /\ q = s.k.row * COLS
      OBVIOUS
    <3>2. l \in Nat /\ q \in Nat /\ s.k.col \in Nat /\ p = s.k.col + q /\ At(s) = l + q + s.k.col
      BY <1>1, <1>2, <3>1, SoundPaper
    <3>3. l + (s.k.col + q) + 1 = (l + q + s.k.col) + 1
      BY ONLY <3>2
    <3> QED BY ONLY <3>1, <3>2, <3>3
  <2> QED BY ONLY <1>1, <1>8, <2>1, <2>3, <2>4 DEF Text
<1>11. Within(s, t)
  <2> SUFFICES ASSUME NEW a \in Memory, a \notin s.k.base .. s.k.base + AREA - 1
               PROVE  t.m[a] = s.m[a]
    BY DEF Within
  <2>1. s.k.base + p \in s.k.base .. s.k.base + AREA - 1
    BY ONLY <1>2, Measures
  <2> QED BY ONLY <1>1, <1>2, <1>8, <2>1, a \in Memory, a \notin s.k.base .. s.k.base + AREA - 1
<1>12. Moves(t, move_forward(t), Text(t), At(s) + 1)
  BY <1>9, ForwardMoves
<1>13. Within(s, move_forward(t))
  <2>1. Within(t, move_forward(t))
    BY ONLY <1>12 DEF Moves
  <2> QED BY ONLY <1>8, <1>11, <2>1 DEF Within
<1> QED BY ONLY <1>1, <1>5, <1>8, <1>10, <1>12, <1>13 DEF Moves

LEMMA EreaseBackMoves ==
    ASSUME NEW s, Sound(s)
    PROVE  IF At(s) > Len(s.g)
           THEN Moves(s, erease_back(s), [Text(s) EXCEPT ![At(s)] = <<" ", s.k.pen>>], At(s) - 1)
           ELSE Moves(s, erease_back(s), Text(s), At(s))
<1>1. CASE ~(At(s) > Len(s.g))
  BY <1>1, BackwardMoves, StayMoves DEF erease_back
<1>2. CASE At(s) > Len(s.g)
  <2>1. PICK t, u, v, x, a, n, l :
          /\ t = move_backward(s) /\ u = show_char(t, " ") /\ v = move_backward(u)
          /\ x = [Text(s) EXCEPT ![At(s)] = <<" ", s.k.pen>>]
          /\ a = At(s) /\ n = Len(Text(s)) /\ l = Len(s.g)
    OBVIOUS
  <2>2. erease_back(s) = v
    BY <1>2, <2>1, BackwardMoves DEF erease_back
  <2>3. /\ a \in Nat /\ l \in Nat /\ n = l + AREA /\ a < n /\ a > l /\ a - 1 < n /\ (a - 1) + 1 = a
        /\ AREA \in Nat
    <3>1. a \in Nat /\ l \in Nat /\ n = l + AREA /\ a < n /\ a > l /\ AREA \in Nat
      BY <1>2, <2>1, SoundPaper, Measures
    <3> QED BY ONLY <3>1
  <2>4. Moves(s, t, Text(s), a - 1)
    BY <1>2, <2>1, BackwardMoves
  <2>5. /\ Sound(t) /\ At(t) = a - 1 /\ Text(t) = Text(s) /\ Within(s, t)
        /\ t.k = [s.k EXCEPT !.row = t.k.row, !.col = t.k.col]
    BY ONLY <2>1, <2>3, <2>4 DEF Moves
  <2>6. s.k \in Record
    BY SoundFields
  <2>7. t.k.pen = s.k.pen /\ t.k.base = s.k.base
    BY ONLY <2>5, <2>6 DEF Record
  <2>8. Moves(t, u, x, a)
    <3>1. Moves(t, u, [Text(t) EXCEPT ![At(t) + 1] = <<Glyph(" "), t.k.pen>>], At(t) + 1)
      BY <2>1, <2>5, ShowMoves
    <3>2. Glyph(" ") = " "
      BY DEF Glyph
    <3> QED BY ONLY <2>1, <2>3, <2>5, <2>7, <3>1, <3>2
  <2>9. Len(x) = n
    <3>1. PICK y, e : y = Text(s) /\ e = <<" ", s.k.pen>>
      OBVIOUS
    <3>2. y \in Seq(Cells) /\ e \in Cells /\ n = Len(y)
      BY <2>1, <3>1, SoundPaper, SoundFields
    <3>3. a \in 1 .. Len(y)
      BY ONLY <2>3, <3>2
    <3>4. Len([y EXCEPT ![a] = e]) = Len(y)
      BY ONLY <3>2, <3>3, ExceptSeq
    <3> QED BY ONLY <2>1, <3>1, <3>2, <3>4
  <2>10. Sound(u) /\ At(u) = a /\ Text(u) = x
    BY ONLY <2>3, <2>8, <2>9 DEF Moves
  <2>11. Len(u.g) = l
    <3>1. Len(u.g) \in Nat /\ Len(Text(u)) = Len(u.g) + AREA
      BY <2>10, SoundPaper
    <3> QED BY ONLY <2>3, <2>9, <2>10, <3>1
  <2>12. Moves(u, v, x, a - 1)
    BY ONLY <2>1, <2>3, <2>10, <2>11, BackwardMoves
  <2>13. Moves(t, v, x, a - 1)
    BY ONLY <2>3, <2>5, <2>8, <2>9, <2>12, MovesTwice
  <2>14. Within(s, v)
    <3>1. Within(t, v)
      BY ONLY <2>13 DEF Moves
    <3> QED BY ONLY <2>5, <2>7, <3>1 DEF Within
  <2>15. v.k = [s.k EXCEPT !.row = v.k.row, !.col = v.k.col]
    <3>1. v.k = [t.k EXCEPT !.row = v.k.row, !.col = v.k.col]
      BY ONLY <2>13 DEF Moves
    <3> QED BY ONLY <2>5, <2>6, <3>1 DEF Record
  <2>16. Moves(s, v, x, a - 1)
    BY ONLY <2>7, <2>13, <2>14, <2>15 DEF Moves
  <2> QED BY ONLY <1>2, <2>1, <2>2, <2>16
<1> QED BY <1>1, <1>2

\* Sideways, to a place, and back to the saved place.
LEMMA SidewaysMoves ==
    ASSUME NEW s, Sound(s), NEW n \in Nat, NEW e, e = (IF n = 0 THEN 1 ELSE n)
    PROVE  /\ Moves(s, move_left(s, n), Text(s), At(s) - (IF e < s.k.col THEN e ELSE s.k.col))
           /\ Moves(s, move_right(s, n), Text(s),
                    At(s) + (IF e < COLS - 1 - s.k.col THEN e ELSE COLS - 1 - s.k.col))
<1>1. PICK l, q, c : l = Len(s.g) /\ q = s.k.row * COLS /\ c = s.k.col
  OBVIOUS
<1>2. /\ l \in Nat /\ q \in Nat /\ c \in Nat /\ At(s) = l + q + c /\ c < COLS
      /\ s.k.row \in Nat /\ s.k.row < ROWS /\ COLS \in Nat /\ e \in Nat
  BY <1>1, SoundPaper, SoundFields, Measures
<1>3. PICK a, b : /\ a = (IF c - e >= 0 THEN c - e ELSE 0)
                  /\ b = (IF c + e >= COLS THEN COLS - 1 ELSE c + e)
  OBVIOUS
<1>4. /\ a \in Nat /\ a < COLS /\ l + q + a = (l + q + c) - (IF e < c THEN e ELSE c)
      /\ b \in Nat /\ b < COLS
      /\ l + q + b = (l + q + c) + (IF e < COLS - 1 - c THEN e ELSE COLS - 1 - c)
  BY ONLY SMTT(40), <1>2, <1>3
<1>5. /\ move_left(s, n) = [s EXCEPT !.k.row = s.k.row, !.k.col = a]
      /\ move_right(s, n) = [s EXCEPT !.k.row = s.k.row, !.k.col = b]
  <2>1. /\ move_left(s, n) = [s EXCEPT !.k.col = IF c - e >= 0 THEN c - e ELSE 0]
        /\ move_right(s, n) = [s EXCEPT !.k.col = IF c + e >= COLS THEN COLS - 1 ELSE c + e]
    BY ONLY <1>1, e = (IF n = 0 THEN 1 ELSE n) DEF move_left, move_right
  <2>2. move_left(s, n) = [s EXCEPT !.k.col = a] /\ move_right(s, n) = [s EXCEPT !.k.col = b]
    BY ONLY <1>3, <2>1
  <2> QED BY ONLY ZenonT(60), <2>2, Sound(s), RowOrColumn
<1>6. /\ Moves(s, move_left(s, n), Text(s), Len(s.g) + s.k.row * COLS + a)
      /\ Moves(s, move_right(s, n), Text(s), Len(s.g) + s.k.row * COLS + b)
  BY ONLY <1>2, <1>4, <1>5, Sound(s), PlacedMoves
<1>7. /\ Len(s.g) + s.k.row * COLS + a = At(s) - (IF e < c THEN e ELSE c)
      /\ Len(s.g) + s.k.row * COLS + b
           = At(s) + (IF e < COLS - 1 - c THEN e ELSE COLS - 1 - c)
  BY ONLY <1>1, <1>2, <1>4
<1> QED BY ONLY <1>1, <1>6, <1>7

LEMMA RestoreMoves ==
    ASSUME NEW s, Sound(s)
    PROVE  Moves(s, restore_cursor(s), Text(s),
                 (Len(Text(s)) - AREA) + (s.k.old_row * COLS + s.k.old_col))
<1>1. Moves(s, restore_cursor(s), Text(s), Len(s.g) + s.k.old_row * COLS + s.k.old_col)
  BY SoundFields, PlacedMoves DEF restore_cursor
<1>2. PICK l, q, c : l = Len(s.g) /\ q = s.k.old_row * COLS /\ c = s.k.old_col
  OBVIOUS
<1>3. l \in Nat /\ q \in Nat /\ c \in Nat /\ Len(Text(s)) = l + AREA /\ AREA \in Nat
  BY <1>2, SoundPaper, SoundFields, PlaceOnScreen, Measures
<1>4. l + q + c = ((l + AREA) - AREA) + (q + c)
  BY ONLY <1>3
<1> QED BY ONLY <1>1, <1>2, <1>3, <1>4

\* To row r and, if there are two parameters, to column c.
LEMMA GotoMoves ==
    ASSUME NEW s, Sound(s), NEW c \in Nat, c < COLS, s.k.param[0] < ROWS, s.k.param[0] \in Nat,
           c = IF s.k.index >= 2 THEN s.k.param[1] ELSE s.k.col
    PROVE  Moves(s, move_cursor(s), Text(s), (Len(Text(s)) - AREA) + s.k.param[0] * COLS + c)
<1>1. PICK r : r = s.k.param[0]
  OBVIOUS
<1>2. move_cursor(s) = [s EXCEPT !.k.row = r, !.k.col = c]
  BY <1>1 DEF move_cursor
<1>3. r \in Nat /\ r < ROWS
  BY <1>1
<1>4. Moves(s, move_cursor(s), Text(s), Len(s.g) + r * COLS + c)
  BY ONLY <1>2, <1>3, c \in Nat, c < COLS, Sound(s), PlacedMoves
<1>5. PICK l : l = Len(s.g)
  OBVIOUS
<1>6. l \in Nat /\ Len(Text(s)) = l + AREA /\ AREA \in Nat
  BY <1>5, SoundPaper, Measures
<1>7. l = (l + AREA) - AREA
  BY ONLY <1>6
<1> QED BY ONLY <1>1, <1>4, <1>5, <1>6, <1>7

\* The screen is erased.
LEMMA WipedIs ==
    ASSUME NEW s, Sound(s), NEW t, t = clear_display(s)
    PROVE  /\ Sound(t) /\ Within(s, t) /\ t.k = s.k /\ t.g = s.g
           /\ Text(t) = SubSeq(Text(s), 1, Len(s.g)) \o BlankRow(AREA, s.k.pen)
           /\ OnPaper(<<>>, t.m, s.k.base, AREA) = BlankRow(AREA, s.k.pen)
<1>1. PICK b, n, g, m, p, w :
         /\ b = s.k.base /\ n = CONSOLE_NR * AREA /\ g = s.g /\ m = s.m /\ p = s.k.pen
         /\ w = Wiped(m, n, b, AREA, <<" ", p>>)
  OBVIOUS
<1>2. Laid(Cells, g, m, b, AREA, n) /\ <<" ", p>> \in Cells
  BY <1>1, SoundPaper, SoundFields
<1>3. /\ w \in [0 .. n - 1 -> Cells]
      /\ OnPaper(g, w, b, AREA) = SubSeq(OnPaper(g, m, b, AREA), 1, Len(g)) \o BlankRow(AREA, p)
      /\ OnPaper(<<>>, w, b, AREA) = BlankRow(AREA, p)
  <2>1. IsWiped(Cells, g, m, b, AREA, n, p, Wiped(m, n, b, AREA, <<" ", p>>))
    BY ONLY <1>2, PaperWiped
  <2> QED BY ONLY <1>1, <2>1 DEF IsWiped
<1>4. t = [s EXCEPT !.m = w]
  <2>1. COLS * 0 = 0 /\ COLS * ((ROWS - 1) + 1) = AREA
    BY Measures
  <2>2. b + COLS * 0 = b
    <3>1. b \in Nat
      BY <1>1, SoundFields
    <3> QED BY ONLY <2>1, <3>1
  <2>3. w = [q \in Memory |-> IF q \in Base(s) + COLS * 0 .. Base(s) + COLS * ((ROWS - 1) + 1) - 1
                              THEN <<" ", s.k.pen>> ELSE s.m[q]]
    BY ONLY <1>1, <2>1, <2>2 DEF Wiped, Memory, Base
  <2> QED BY ONLY <2>3, t = clear_display(s) DEF clear_display, erease_rows
<1>5. s \in [k : Record, m : [Memory -> Cells], g : Seq(Cells)]
  BY DEF Sound
<1>6. w \in [Memory -> Cells]
  BY ONLY <1>1, <1>3 DEF Memory
<1>7. t.k = s.k /\ t.m = w /\ t.g = s.g /\ t \in [k : Record, m : [Memory -> Cells], g : Seq(Cells)]
  BY ONLY <1>4, <1>5, <1>6
<1>8. Sound(t)
  BY <1>7 DEF Sound
<1>9. Within(s, t)
  BY ONLY <1>1, <1>7 DEF Within, Wiped, Memory
<1> QED BY ONLY <1>1, <1>3, <1>7, <1>8, <1>9 DEF Text

LEMMA WipeMoves ==
    ASSUME NEW s, Sound(s), s.k.param[0] = 2
    PROVE  Moves(s, erase_in_display(s),
                 SubSeq(Text(s), 1, Len(Text(s)) - AREA) \o BlankRow(AREA, s.k.pen),
                 Len(Text(s)) - AREA)
<1>1. PICK t, u : t = clear_display(s) /\ u = erase_in_display(s)
  OBVIOUS
<1>2. /\ Sound(t) /\ Within(s, t) /\ t.k = s.k /\ t.g = s.g
      /\ Text(t) = SubSeq(Text(s), 1, Len(s.g)) \o BlankRow(AREA, s.k.pen)
  BY <1>1, WipedIs
<1>3. u = [t EXCEPT !.k.row = 0, !.k.col = 0]
  BY <1>1 DEF erase_in_display, clear_display
<1>4. Moves(t, u, Text(t), Len(t.g) + 0 * COLS + 0)
  <2>1. 0 \in Nat /\ 0 < ROWS /\ 0 < COLS
    BY Measures
  <2> QED BY ONLY <1>2, <1>3, <2>1, PlacedMoves
<1>5. PICK l : l = Len(s.g)
  OBVIOUS
<1>6. l \in Nat /\ Len(Text(s)) = l + AREA /\ AREA \in Nat /\ 0 * COLS = 0
  <2>1. 0 * COLS = 0 /\ AREA \in Nat
    BY Measures
  <2>2. l \in Nat /\ Len(Text(s)) = l + AREA
    BY <1>5, SoundPaper
  <2> QED BY ONLY <2>1, <2>2
<1>7. l + 0 + 0 = l /\ (l + AREA) - AREA = l
  BY ONLY <1>6
<1>8. Moves(t, u, Text(t), l) /\ Len(Text(s)) - AREA = l
  BY ONLY <1>2, <1>4, <1>5, <1>6, <1>7
<1>9. Within(s, u)
  <2>1. Within(t, u)
    BY ONLY <1>8 DEF Moves
  <2> QED BY ONLY <1>2, <2>1 DEF Within
<1> QED BY ONLY <1>1, <1>2, <1>5, <1>8, <1>9 DEF Moves

-----------------------------------------------------------------------------
(* What a character does, as a command to the sheet.                       *)

\* As Moves, the state of the escape sequence aside.
Goes(s, t, x, p) ==
    /\ Sound(t) /\ Within(s, t)
    /\ t.k.base = s.k.base /\ t.k.pen = s.k.pen
    /\ t.k.old_row = s.k.old_row /\ t.k.old_col = s.k.old_col
    /\ At(t) = p
    /\ Text(t) = IF p < Len(x) THEN x ELSE x \o BlankRow(COLS, s.k.pen)

\* Only the state of the escape sequence differs.
Still(s, t) ==
    /\ Sound(t) /\ t.m = s.m /\ t.g = s.g
    /\ t.k = [s.k EXCEPT !.write_state = t.k.write_state, !.param = t.k.param, !.index = t.k.index]

Top(s) == Len(Text(s)) - AREA

Steps(n) == IF n = 0 THEN 1 ELSE n

PenSet(k, p, w, n) == [k EXCEPT !.pen = p, !.write_state = w, !.index = n]

\* The command cmd takes the console from s to t.
Carries(s, t, cmd) ==
    \/ cmd = <<>> /\ Goes(s, t, Text(s), At(s))
    \/ \E g : cmd = <<"print", g>>
              /\ Goes(s, t, [Text(s) EXCEPT ![At(s) + 1] = <<g, s.k.pen>>], At(s) + 1)
    \/ cmd = <<"feed">> /\ Goes(s, t, Text(s), At(s) - s.k.col + COLS)
    \/ cmd = <<"return">> /\ Goes(s, t, Text(s), At(s) - s.k.col)
    \/ cmd = <<"back">> /\ Goes(s, t, Text(s), IF At(s) > Top(s) THEN At(s) - 1 ELSE At(s))
    \/ /\ cmd = <<"rub">>
       /\ IF At(s) > Top(s)
          THEN Goes(s, t, [Text(s) EXCEPT ![At(s)] = <<" ", s.k.pen>>], At(s) - 1)
          ELSE Goes(s, t, Text(s), At(s))
    \/ \E n : cmd = <<"left", n>>
              /\ Goes(s, t, Text(s), At(s) - (IF Steps(n) < s.k.col THEN Steps(n) ELSE s.k.col))
    \/ \E n : cmd = <<"right", n>>
              /\ Goes(s, t, Text(s), At(s) + (IF Steps(n) < COLS - 1 - s.k.col
                                              THEN Steps(n) ELSE COLS - 1 - s.k.col))
    \/ \E r : cmd = <<"goto", r>> /\ Goes(s, t, Text(s), Top(s) + r * COLS + s.k.col)
    \/ \E r, c : cmd = <<"goto", r, c>> /\ Goes(s, t, Text(s), Top(s) + r * COLS + c)
    \/ cmd = <<"restore">> /\ Goes(s, t, Text(s), Top(s) + (s.k.old_row * COLS + s.k.old_col))
    \/ cmd = <<"wipe">>
       /\ Goes(s, t, SubSeq(Text(s), 1, Top(s)) \o BlankRow(AREA, s.k.pen), Top(s))
    \/ /\ cmd = <<"save">>
       /\ Sound(t) /\ t.m = s.m /\ t.g = s.g
       /\ \E w : t.k = [s.k EXCEPT !.old_row = s.k.row, !.old_col = s.k.col, !.write_state = w]
    \/ /\ cmd = <<"dye">>
       /\ Sound(t) /\ t.m = s.m /\ t.g = s.g
       /\ \E p \in Pens : \E w, n : t.k = PenSet(s.k, p, w, n)

LEMMA TopIs == ASSUME NEW s, Sound(s) PROVE Top(s) = Len(s.g)
<1>1. PICK l : l = Len(s.g)
  OBVIOUS
<1>2. l \in Nat /\ AREA \in Nat /\ Len(Text(s)) = l + AREA
  BY <1>1, SoundPaper, Measures
<1>3. (l + AREA) - AREA = l
  BY ONLY <1>2
<1> QED BY ONLY <1>1, <1>2, <1>3 DEF Top

LEMMA MovesGoes ==
    ASSUME NEW s, NEW t, NEW x, NEW p, Sound(s), Moves(s, t, x, p)
    PROVE  Goes(s, t, x, p)
<1>1. s.k \in Record /\ t.k = [s.k EXCEPT !.row = t.k.row, !.col = t.k.col]
  BY SoundFields DEF Moves
<1>2. /\ t.k.base = s.k.base /\ t.k.pen = s.k.pen
      /\ t.k.old_row = s.k.old_row /\ t.k.old_col = s.k.old_col
  BY ONLY <1>1 DEF Record
<1> QED BY <1>2 DEF Moves, Goes

LEMMA StillIs ==
    ASSUME NEW s, NEW t, Sound(s), Still(s, t)
    PROVE  /\ t.k.base = s.k.base /\ t.k.pen = s.k.pen /\ t.k.row = s.k.row /\ t.k.col = s.k.col
           /\ t.k.old_row = s.k.old_row /\ t.k.old_col = s.k.old_col
           /\ Text(t) = Text(s) /\ At(t) = At(s) /\ t.m = s.m /\ t.g = s.g /\ Sound(t)
<1>1. /\ s.k \in Record
      /\ t.k = [s.k EXCEPT !.write_state = t.k.write_state, !.param = t.k.param, !.index = t.k.index]
  BY SoundFields DEF Still
<1>2. /\ t.k.base = s.k.base /\ t.k.pen = s.k.pen /\ t.k.row = s.k.row /\ t.k.col = s.k.col
      /\ t.k.old_row = s.k.old_row /\ t.k.old_col = s.k.old_col
  BY ONLY <1>1 DEF Record
<1> QED BY <1>2 DEF Still, Text, At

\* A move between two changes of the escape sequence's state.
LEMMA StillGoes ==
    ASSUME NEW s, NEW t, NEW u, NEW v, NEW x, NEW p, Sound(s),
           Still(s, t), Goes(t, u, x, p), Still(u, v)
    PROVE  Goes(s, v, x, p)
<1>1. Sound(u)
  BY DEF Goes
<1>2. /\ t.k.base = s.k.base /\ t.k.pen = s.k.pen /\ t.k.old_row = s.k.old_row
      /\ t.k.old_col = s.k.old_col /\ t.m = s.m
  BY StillIs
<1>3. /\ v.k.base = u.k.base /\ v.k.pen = u.k.pen /\ v.k.old_row = u.k.old_row
      /\ v.k.old_col = u.k.old_col /\ v.m = u.m /\ Text(v) = Text(u) /\ At(v) = At(u) /\ Sound(v)
  BY <1>1, StillIs
<1>4. Within(s, v)
  <2>1. Within(t, u)
    BY DEF Goes
  <2> QED BY ONLY <1>2, <1>3, <2>1 DEF Within
<1> QED BY <1>2, <1>3, <1>4 DEF Goes

\* Changing the state of the escape sequence leaves the console sound.
EscSet(s, w, a, n) == [s EXCEPT !.k = [@ EXCEPT !.write_state = w, !.param = a, !.index = n]]

LEMMA StillSound ==
    ASSUME NEW s, Sound(s), NEW w \in WriteStates, NEW a, NEW n \in Nat,
           a \in [0 .. ESC_PARAM_MAX - 1 -> Nat],
           NEW t, t = EscSet(s, w, a, n)
    PROVE  Still(s, t) /\ t.k.write_state = w /\ t.k.param = a /\ t.k.index = n
<1>1. s \in [k : Record, m : [Memory -> Cells], g : Seq(Cells)] /\ s.k \in Record
  BY DEF Sound
<1>2. t.m = s.m /\ t.g = s.g /\ t.k = [s.k EXCEPT !.write_state = w, !.param = a, !.index = n]
  BY ONLY <1>1, t = EscSet(s, w, a, n) DEF EscSet
<1>3. PICK k, h : k = s.k /\ h = t.k
  OBVIOUS
<1>4. k \in Record /\ h = [k EXCEPT !.write_state = w, !.param = a, !.index = n]
  BY ONLY <1>1, <1>2, <1>3
<1>5. /\ h \in Record /\ h.base = k.base /\ h.row = k.row /\ h.col = k.col
      /\ h.old_row = k.old_row /\ h.old_col = k.old_col
      /\ h.write_state = w /\ h.param = a /\ h.index = n
  BY ONLY <1>4, w \in WriteStates, n \in Nat,
          a \in [0 .. ESC_PARAM_MAX - 1 -> Nat] DEF Record
<1>6. t \in [k : Record, m : [Memory -> Cells], g : Seq(Cells)]
  BY ONLY <1>1, <1>3, <1>5, t = EscSet(s, w, a, n) DEF EscSet
<1>7. Sound(t)
  BY <1>2, <1>3, <1>5, <1>6 DEF Sound, OnScreen
<1> QED BY ONLY <1>2, <1>3, <1>5, <1>7 DEF Still

\* Of the two tables of colours, and of what set_font_style takes from them.
LEMMA HuesAre ==
    /\ \A p \in DOMAIN Foreground : Foreground[p] \in ToSet(Colors)
    /\ \A p \in DOMAIN Background : Background[p] \in ToSet(Colors)
    /\ "Black" \in ToSet(Colors) /\ "White" \in ToSet(Colors)
<1>1. DOMAIN Colors = 1 .. 8
  BY DEF Colors
<1>2. \A n \in 1 .. 8 : Colors[n] \in ToSet(Colors)
  BY <1>1 DEF ToSet
<1>3. Colors[1] = "Black" /\ Colors[8] = "White"
  BY DEF Colors
<1>4. "Black" \in ToSet(Colors) /\ "White" \in ToSet(Colors)
  BY ONLY <1>2, <1>3
<1>5. Default.fg = "White" /\ Default.bg = "Black"
  BY DEF Default
<1>6. ASSUME NEW p \in DOMAIN Foreground PROVE Foreground[p] \in ToSet(Colors)
  <2>1. p \in (30 .. 37) \cup {39}
    BY DEF Foreground
  <2>2. Foreground[p] = IF p = 39 THEN Default.fg ELSE Colors[p - 29]
    BY <2>1 DEF Foreground
  <2>3. p = 39 \/ p - 29 \in 1 .. 8
    BY ONLY <2>1
  <2> QED BY ONLY <1>2, <1>4, <1>5, <2>2, <2>3
<1>7. ASSUME NEW p \in DOMAIN Background PROVE Background[p] \in ToSet(Colors)
  <2>1. p \in (40 .. 47) \cup {49}
    BY DEF Background
  <2>2. Background[p] = IF p = 49 THEN Default.bg ELSE Colors[p - 39]
    BY <2>1 DEF Background
  <2>3. p = 49 \/ p - 39 \in 1 .. 8
    BY ONLY <2>1
  <2> QED BY ONLY <1>2, <1>4, <1>5, <2>2, <2>3
<1> QED BY <1>4, <1>6, <1>7

LEMMA DyedIs ==
    ASSUME NEW color \in ToSet(Colors), NEW table, NEW ps, DOMAIN ps \subseteq Nat,
           \A p \in DOMAIN table : table[p] \in ToSet(Colors)
    PROVE  Dyed(color, table, ps) \in ToSet(Colors)
<1>1. PICK H, S : H = ToSet(Colors) /\ S = {i \in DOMAIN ps : ps[i] \in DOMAIN table}
  OBVIOUS
<1>2. PICK d \in H : \A i \in S : (\A j \in S : j <= i) => d = table[ps[i]]
  <2>1. CASE \E i \in S : \A j \in S : j <= i
    <3>1. PICK i \in S : \A j \in S : j <= i
      BY <2>1
    <3>2. table[ps[i]] \in H /\ S \subseteq Nat
      BY <1>1
    <3>3. \A h \in S : (\A j \in S : j <= h) => h = i
      BY ONLY <3>1, <3>2
    <3> QED BY ONLY <3>2, <3>3
  <2>2. CASE ~\E i \in S : \A j \in S : j <= i
    BY <1>1, <2>2
  <2> QED BY <2>1, <2>2
<1>3. (CHOOSE e \in H : \A i \in S : (\A j \in S : j <= i) => e = table[ps[i]]) \in H
  BY ONLY <1>2
<1> QED BY ONLY <1>1, <1>3, color \in ToSet(Colors) DEF Dyed

LEMMA DefaultIs == Default \in Pens
BY HuesAre DEF Default, Pens

LEMMA FontIs ==
    ASSUME NEW s, Sound(s)
    PROVE  \E p \in Pens : set_font_style(s) = [s EXCEPT !.k.pen = p]
<1>1. PICK n : n = IF s.k.index < ESC_PARAM_MAX THEN s.k.index ELSE ESC_PARAM_MAX
  OBVIOUS
<1>2. PICK ps : ps = [i \in 0 .. n - 1 |-> s.k.param[i]]
  OBVIOUS
<1>3. s.k.index \in Nat /\ s.k.pen \in Pens
  BY DEF Sound, Record
<1>4. n \in Nat /\ DOMAIN ps \subseteq Nat
  BY ONLY <1>1, <1>2, <1>3, Measures
<1>5. s.k.pen.fg \in ToSet(Colors) /\ s.k.pen.bg \in ToSet(Colors)
  BY ONLY <1>3 DEF Pens
<1>6. /\ Dyed(s.k.pen.fg, Foreground, ps) \in ToSet(Colors)
      /\ Dyed(s.k.pen.bg, Background, ps) \in ToSet(Colors)
  BY ONLY <1>4, <1>5, HuesAre, DyedIs
<1>7. PICK p : p = [fg |-> Dyed(s.k.pen.fg, Foreground, ps), bg |-> Dyed(s.k.pen.bg, Background, ps)]
  OBVIOUS
<1>8. p \in Pens
  BY ONLY <1>6, <1>7 DEF Pens
<1>9. set_font_style(s) = [s EXCEPT !.k.pen = p]
  BY ONLY <1>1, <1>2, <1>7 DEF set_font_style
<1> QED BY ONLY <1>8, <1>9

LEMMA MovesState ==
    ASSUME NEW s, NEW t, NEW x, NEW p, Sound(s), Moves(s, t, x, p)
    PROVE  t.k.write_state = s.k.write_state
<1>1. s.k \in Record /\ t.k = [s.k EXCEPT !.row = t.k.row, !.col = t.k.col]
  BY SoundFields DEF Moves
<1> QED BY ONLY <1>1 DEF Record

\* The write state after an escape sequence.
LEMMA StateSet ==
    ASSUME NEW s, Sound(s), NEW w \in WriteStates
    PROVE  /\ Still(s, [s EXCEPT !.k.write_state = w])
           /\ [s EXCEPT !.k.write_state = w].k.write_state = w
<1>1. s.k \in Record /\ s \in [k : Record, m : [Memory -> Cells], g : Seq(Cells)]
  BY DEF Sound
<1>2. PICK k, p, n : k = s.k /\ p = s.k.param /\ n = s.k.index
  OBVIOUS
<1>3. /\ p \in [0 .. ESC_PARAM_MAX - 1 -> Nat] /\ n \in Nat
      /\ [k EXCEPT !.write_state = w] = [k EXCEPT !.write_state = w, !.param = p, !.index = n]
  BY ONLY <1>1, <1>2 DEF Record
<1>4. PICK t : t = [s EXCEPT !.k.write_state = w]
  OBVIOUS
<1>5. t = EscSet(s, w, p, n)
  BY ONLY <1>1, <1>2, <1>3, <1>4 DEF EscSet
<1>6. Still(s, t) /\ t.k.write_state = w
  BY ONLY <1>3, <1>5, Sound(s), w \in WriteStates, StillSound
<1> QED BY ONLY <1>4, <1>6

LEMMA StillStays ==
    ASSUME NEW s, NEW t, Sound(s), Still(s, t)
    PROVE  Goes(s, t, Text(s), At(s)) /\ Carries(s, t, <<>>)
<1>1. Goes(s, t, Text(s), At(s))
  BY ZenonT(60), StillIs, SoundPaper DEF Goes, Within
<1> QED BY <1>1 DEF Carries

\* Outside an escape sequence.
LEMMA NormalCarries ==
    ASSUME NEW s, Sound(s), s.k.write_state = "NOMAL", NEW c, NEW a,
           NEW t, t = write_nomal(s, c), NEW cmd, cmd = CommandOf("NOMAL", a, c)
    PROVE  Carries(s, t, cmd) /\ t.k.write_state # "SQUARE"
<1>1. CASE c = "ESC"
  <2>1. t = [s EXCEPT !.k.write_state = "ESC"] /\ cmd = <<>>
    BY <1>1 DEF write_nomal, CommandOf
  <2>2. Still(s, t) /\ t.k.write_state = "ESC"
    BY ZenonT(60), <2>1, StateSet DEF WriteStates
  <2> QED BY <2>1, <2>2, StillStays
<1>2. CASE c = "NUL"
  <2>1. t = s /\ cmd = <<>>
    BY <1>2 DEF write_nomal, CommandOf
  <2>2. Goes(s, t, Text(s), At(s))
    BY <2>1, StayMoves, MovesGoes
  <2> QED BY <2>1, <2>2 DEF Carries
<1>3. CASE c = "DEL"
  <2>1. t = erease_back(s) /\ cmd = <<"rub">>
    BY <1>3 DEF write_nomal, CommandOf
  <2>2. IF At(s) > Top(s)
        THEN Moves(s, t, [Text(s) EXCEPT ![At(s)] = <<" ", s.k.pen>>], At(s) - 1)
        ELSE Moves(s, t, Text(s), At(s))
    <3>1. Top(s) = Len(s.g)
      BY TopIs
    <3> QED BY ONLY <2>1, <3>1, Sound(s), EreaseBackMoves
  <2>3. IF At(s) > Top(s)
        THEN Goes(s, t, [Text(s) EXCEPT ![At(s)] = <<" ", s.k.pen>>], At(s) - 1)
        ELSE Goes(s, t, Text(s), At(s))
    BY <2>2, MovesGoes
  <2>4. t.k.write_state = s.k.write_state
    BY <2>2, MovesState
  <2> QED BY ONLY <2>1, <2>3, <2>4, s.k.write_state = "NOMAL" DEF Carries
<1>4. CASE c = "BS"
  <2>1. t = move_backward(s) /\ cmd = <<"back">>
    BY <1>4 DEF write_nomal, CommandOf
  <2>2. Moves(s, t, Text(s), IF At(s) > Top(s) THEN At(s) - 1 ELSE At(s))
    BY <2>1, BackwardMoves, TopIs
  <2>3. Goes(s, t, Text(s), IF At(s) > Top(s) THEN At(s) - 1 ELSE At(s))
    BY <2>2, MovesGoes
  <2>4. t.k.write_state = s.k.write_state
    BY <2>2, MovesState
  <2> QED BY ONLY <2>1, <2>3, <2>4, s.k.write_state = "NOMAL" DEF Carries
<1>5. CASE c = "CR"
  <2>1. t = mov_to_col0(s) /\ cmd = <<"return">>
    BY <1>5 DEF write_nomal, CommandOf
  <2>2. Moves(s, t, Text(s), At(s) - s.k.col)
    BY <2>1, Column0Moves
  <2>3. Goes(s, t, Text(s), At(s) - s.k.col)
    BY <2>2, MovesGoes
  <2>4. t.k.write_state = s.k.write_state
    BY <2>2, MovesState
  <2> QED BY ONLY <2>1, <2>3, <2>4, s.k.write_state = "NOMAL" DEF Carries
<1>6. CASE c = "LF"
  <2>1. PICK u : u = mov_to_col0(s)
    OBVIOUS
  <2>2. t = mov_next_row(u) /\ cmd = <<"feed">>
    BY <1>6, <2>1 DEF write_nomal, CommandOf
  <2>3. Moves(s, u, Text(s), At(s) - s.k.col) /\ At(s) - s.k.col < Len(Text(s))
    <3>1. PICK x, n, d : x = At(s) /\ n = Len(Text(s)) /\ d = s.k.col
      OBVIOUS
    <3>2. x \in Nat /\ d \in Nat /\ x < n /\ n \in Nat
      <4>1. Len(Text(s)) \in Nat
        BY SoundPaper, LenProperties
      <4> QED BY <3>1, <4>1, SoundPaper, SoundFields
    <3>3. x - d < n
      BY ONLY <3>2
    <3> QED BY <2>1, <3>1, <3>3, Column0Moves
  <2>4. Sound(u) /\ Text(u) = Text(s) /\ At(u) = At(s) - s.k.col
    BY ONLY <2>3 DEF Moves
  <2>5. Moves(u, t, Text(s), At(s) - s.k.col + COLS)
    BY ONLY <2>2, <2>4, NextRowMoves
  <2>6. Moves(s, t, Text(s), At(s) - s.k.col + COLS)
    BY ONLY <2>3, <2>5, Sound(s), MovesTwice
  <2>7. Goes(s, t, Text(s), At(s) - s.k.col + COLS)
    BY <2>6, MovesGoes
  <2>8. t.k.write_state = s.k.write_state
    BY <2>6, MovesState
  <2> QED BY ONLY <2>2, <2>7, <2>8, s.k.write_state = "NOMAL" DEF Carries
<1>7. CASE c \notin {"ESC", "NUL", "DEL", "BS", "CR", "LF"}
  <2>1. t = show_char(s, c) /\ cmd = <<"print", Glyph(c)>>
    BY <1>7 DEF write_nomal, CommandOf
  <2>2. Moves(s, t, [Text(s) EXCEPT ![At(s) + 1] = <<Glyph(c), s.k.pen>>], At(s) + 1)
    BY <2>1, ShowMoves
  <2>3. Goes(s, t, [Text(s) EXCEPT ![At(s) + 1] = <<Glyph(c), s.k.pen>>], At(s) + 1)
    BY <2>2, MovesGoes
  <2>4. t.k.write_state = s.k.write_state
    BY <2>2, MovesState
  <2> QED BY ONLY <2>1, <2>3, <2>4, s.k.write_state = "NOMAL" DEF Carries
<1> QED BY <1>1, <1>2, <1>3, <1>4, <1>5, <1>6, <1>7

LEMMA StillSelf == ASSUME NEW s, Sound(s) PROVE Still(s, s)
<1>1. s.k \in Record
  BY SoundFields
<1>2. s.k = [s.k EXCEPT !.write_state = s.k.write_state, !.param = s.k.param, !.index = s.k.index]
  BY ONLY <1>1 DEF Record
<1> QED BY <1>2 DEF Still

\* The end of an escape sequence after a move.
Ended(v) == [v EXCEPT !.k.write_state = "NOMAL"]

LEMMA SequenceGoes ==
    ASSUME NEW s, NEW u, NEW v, NEW x, NEW p, NEW t, Sound(s), Still(s, u), Goes(u, v, x, p),
           t = Ended(v)
    PROVE  Goes(s, t, x, p) /\ t.k.write_state = "NOMAL"
<1>1. Sound(v)
  BY DEF Goes
<1>2. Still(v, t) /\ t.k.write_state = "NOMAL"
  <2>1. "NOMAL" \in WriteStates
    BY DEF WriteStates
  <2> QED BY ONLY <1>1, <2>1, StateSet, t = Ended(v) DEF Ended
<1> QED BY ONLY <1>2, Sound(s), Still(s, u), Goes(u, v, x, p), StillGoes

\* After the escape character.
LEMMA EscCarries ==
    ASSUME NEW s, Sound(s), NEW c, NEW a,
           NEW t, t = write_esc(s, c), NEW cmd, cmd = CommandOf("ESC", a, c)
    PROVE  /\ Carries(s, t, cmd)
           /\ t.k.write_state = "SQUARE" =>
                 t.k.index = 0 /\ \A j \in 0 .. ESC_PARAM_MAX - 1 : t.k.param[j] = 0
<1>1. CASE c = "7"
  <2>1. t = [save_cursor(s) EXCEPT !.k.write_state = "NOMAL"] /\ cmd = <<"save">>
    BY <1>1 DEF write_esc, CommandOf
  <2>2. s.k \in Record /\ s \in [k : Record, m : [Memory -> Cells], g : Seq(Cells)]
    BY DEF Sound
  <2>3. PICK k : k = s.k
    OBVIOUS
  <2>4. PICK h : h = [k EXCEPT !.old_row = k.row, !.old_col = k.col, !.write_state = "NOMAL"]
    OBVIOUS
  <2>5. /\ h \in Record /\ h.write_state = "NOMAL" /\ h.base = k.base /\ h.row = k.row
        /\ h.col = k.col /\ h.old_row = k.row /\ h.old_col = k.col
    BY ONLY <2>2, <2>3, <2>4 DEF Record, WriteStates
  <2>6. t = [s EXCEPT !.k = h]
    BY ONLY <2>1, <2>2, <2>3, <2>4 DEF save_cursor
  <2>7. /\ t.k = h /\ t.m = s.m /\ t.g = s.g
        /\ t \in [k : Record, m : [Memory -> Cells], g : Seq(Cells)]
    BY ONLY <2>2, <2>5, <2>6
  <2>8. Sound(t)
    BY <2>3, <2>5, <2>7 DEF Sound, OnScreen
  <2> QED BY ONLY <2>1, <2>3, <2>4, <2>5, <2>7, <2>8 DEF Carries
<1>2. CASE c = "8"
  <2>1. t = [restore_cursor(s) EXCEPT !.k.write_state = "NOMAL"] /\ cmd = <<"restore">>
    BY <1>2 DEF write_esc, CommandOf
  <2>2. Moves(s, restore_cursor(s), Text(s), Top(s) + (s.k.old_row * COLS + s.k.old_col))
    BY RestoreMoves DEF Top
  <2>3. Goes(s, restore_cursor(s), Text(s), Top(s) + (s.k.old_row * COLS + s.k.old_col))
    BY <2>2, MovesGoes
  <2>4. /\ Goes(s, t, Text(s), Top(s) + (s.k.old_row * COLS + s.k.old_col))
        /\ t.k.write_state = "NOMAL"
    <3>1. t = Ended(restore_cursor(s)) /\ Still(s, s)
      BY <2>1, StillSelf DEF Ended
    <3> QED BY ONLY <2>3, <3>1, Sound(s), SequenceGoes
  <2> QED BY ONLY <2>1, <2>4 DEF Carries
<1>3. CASE c = "["
  <2>1. t = [clear_esc_param(s) EXCEPT !.k.write_state = "SQUARE"] /\ cmd = <<>>
    BY <1>3 DEF write_esc, CommandOf
  <2>2. s.k \in Record /\ s \in [k : Record, m : [Memory -> Cells], g : Seq(Cells)]
    BY DEF Sound
  <2>3. PICK p : p = [i \in DOMAIN s.k.param |-> 0]
    OBVIOUS
  <2>4. DOMAIN s.k.param = 0 .. ESC_PARAM_MAX - 1
    BY ONLY <2>2 DEF Record
  <2>5. p \in [0 .. ESC_PARAM_MAX - 1 -> Nat] /\ \A j \in 0 .. ESC_PARAM_MAX - 1 : p[j] = 0
    BY ONLY <2>3, <2>4
  <2>6. t = EscSet(s, "SQUARE", p, 0)
    BY ONLY <2>1, <2>2, <2>3 DEF clear_esc_param, EscSet
  <2>7. Still(s, t) /\ t.k.param = p /\ t.k.index = 0
    <3>1. "SQUARE" \in WriteStates /\ 0 \in Nat
      BY DEF WriteStates
    <3> QED BY ONLY <2>5, <2>6, <3>1, Sound(s), StillSound
  <2> QED BY ONLY <2>1, <2>5, <2>7, Sound(s), StillStays
<1>4. CASE c \notin {"7", "8", "["}
  <2>1. t = [s EXCEPT !.k.write_state = "NOMAL"] /\ cmd = <<>>
    BY <1>4 DEF write_esc, CommandOf
  <2>2. Still(s, t) /\ t.k.write_state = "NOMAL"
    BY ZenonT(60), <2>1, StateSet DEF WriteStates
  <2> QED BY <2>1, <2>2, StillStays
<1> QED BY <1>1, <1>2, <1>3, <1>4

\* The numbers a of an escape sequence are in the parameters of the console.
InParam(k, a) ==
    /\ k.index = Len(a) - 1 /\ k.index <= ESC_PARAM_MAX
    /\ \A j \in 0 .. ESC_PARAM_MAX - 1 : k.param[j] = IF j < Len(a) THEN a[j + 1] ELSE 0

Spelled(k, a) ==
    /\ a \in Seq(Nat) /\ Len(a) > 0
    /\ k.write_state = "SQUARE" => InParam(k, a)

LEMMA DigitsAre == ";" \notin DOMAIN Digits /\ \A c \in DOMAIN Digits : Digits[c] \in Nat
BY DEF Digits

LEMMA NoCommand ==
    ASSUME NEW a, NEW c, c \notin {"m", "D", "C", "H", "J"}
    PROVE  CommandOf("SQUARE", a, c) = <<>>
BY DEF CommandOf

\* A digit.
LEMMA DigitCarries ==
    ASSUME NEW s, Sound(s), s.k.write_state = "SQUARE", NEW a, Spelled(s.k, a),
           NEW c \in DOMAIN Digits, Len(a) <= ESC_PARAM_MAX, NEW t, t = AddDigit(s, Digits[c])
    PROVE  Still(s, t) /\ t.k.write_state = "SQUARE" /\ Spelled(t.k, Parse(a, c))
<1>1. PICK d \in Nat : d = Digits[c]
  BY DigitsAre
<1>2. PICK i, p, l : i = s.k.index /\ p = s.k.param /\ l = Len(a)
  OBVIOUS
<1>3. /\ a \in Seq(Nat) /\ l \in Nat /\ l > 0 /\ i = l - 1
      /\ \A j \in 0 .. ESC_PARAM_MAX - 1 : p[j] = IF j < l THEN a[j + 1] ELSE 0
  BY <1>2, LenProperties DEF Spelled, InParam
<1>4. p \in [0 .. ESC_PARAM_MAX - 1 -> Nat] /\ s.k \in Record
      /\ s \in [k : Record, m : [Memory -> Cells], g : Seq(Cells)]
  BY <1>2 DEF Sound, Record
<1>5. i \in 0 .. ESC_PARAM_MAX - 1 /\ i < ESC_PARAM_MAX /\ i \in Nat /\ l <= ESC_PARAM_MAX
  BY <1>2, <1>3, Measures
<1>6. PICK q : q = [p EXCEPT ![i] = p[i] * 10 + d]
  OBVIOUS
<1>7. p[i] \in Nat /\ p[i] * 10 + d \in Nat /\ a[l] = p[i]
  BY ONLY SMTT(40), <1>1, <1>3, <1>4, <1>5
<1>8. q \in [0 .. ESC_PARAM_MAX - 1 -> Nat]
  BY ONLY <1>4, <1>5, <1>6, <1>7
<1>9. t = EscSet(s, "SQUARE", q, i)
  <2>1. t = [s EXCEPT !.k.param[i] = @ * 10 + d]
    BY <1>1, <1>2, <1>5 DEF AddDigit
  <2>2. t = [s EXCEPT !.k = [@ EXCEPT !.param = q]]
    BY ONLY <1>2, <1>4, <1>6, <2>1
  <2>3. [s.k EXCEPT !.param = q] = [s.k EXCEPT !.write_state = "SQUARE", !.param = q, !.index = i]
    BY ONLY <1>2, <1>4, s.k.write_state = "SQUARE" DEF Record
  <2> QED BY ONLY <2>2, <2>3 DEF EscSet
<1>10. Still(s, t) /\ t.k.write_state = "SQUARE" /\ t.k.param = q /\ t.k.index = i
  <2>1. "SQUARE" \in WriteStates
    BY DEF WriteStates
  <2> QED BY ONLY <1>5, <1>8, <1>9, <2>1, Sound(s), StillSound
<1>11. PICK b : b = [a EXCEPT ![l] = 10 * a[l] + d]
  OBVIOUS
<1>12. Parse(a, c) = b
  BY ONLY <1>1, <1>2, <1>11, DigitsAre, c \in DOMAIN Digits DEF Parse
<1>13. /\ b \in Seq(Nat) /\ Len(b) = l
       /\ \A j \in 1 .. l : b[j] = IF j = l THEN 10 * a[l] + d ELSE a[j]
  <2>1. l \in 1 .. Len(a) /\ 10 * a[l] + d \in Nat
    <3>1. l \in 1 .. Len(a)
      BY ONLY <1>2, <1>3
    <3>2. PICK f \in Nat : f = a[l]
      BY ONLY <1>7
    <3>3. 10 * f + d \in Nat
      BY ONLY f \in Nat, d \in Nat
    <3> QED BY ONLY <3>1, <3>2, <3>3
  <2>2. PICK e \in Nat : e = 10 * a[l] + d
    BY <2>1
  <2> QED BY ONLY <1>2, <1>3, <1>11, <2>1, <2>2, ExceptSeq
<1>14. ASSUME NEW j \in 0 .. ESC_PARAM_MAX - 1 PROVE q[j] = IF j < l THEN b[j + 1] ELSE 0
  <2>1. CASE j = i
    <3>1. q[j] = p[i] * 10 + d /\ j < l /\ j + 1 = l /\ l \in 1 .. l
      BY ONLY <1>3, <1>4, <1>5, <1>6, <2>1
    <3>2. b[l] = 10 * p[i] + d
      BY ONLY <1>7, <1>13, <3>1
    <3> QED BY ONLY <1>1, <1>7, <3>1, <3>2
  <2>2. CASE j # i
    <3>1. q[j] = p[j] /\ (j < l => j + 1 \in 1 .. l /\ j + 1 # l)
      BY ONLY <1>3, <1>4, <1>5, <1>6, <2>2, j \in 0 .. ESC_PARAM_MAX - 1, Measures
    <3> QED BY ONLY <1>3, <1>13, <3>1, j \in 0 .. ESC_PARAM_MAX - 1
  <2> QED BY <2>1, <2>2
<1>15. InParam(t.k, b)
  <2>1. i <= ESC_PARAM_MAX
    BY ONLY <1>5, Measures
  <2> QED BY ONLY <1>3, <1>10, <1>13, <1>14, <2>1 DEF InParam
<1> QED BY ONLY <1>3, <1>10, <1>12, <1>13, <1>15 DEF Spelled

\* A separator.
LEMMA SeparatorCarries ==
    ASSUME NEW s, Sound(s), s.k.write_state = "SQUARE", NEW a, Spelled(s.k, a),
           s.k.index < ESC_PARAM_MAX, NEW t, t = [s EXCEPT !.k.index = @ + 1]
    PROVE  Still(s, t) /\ t.k.write_state = "SQUARE" /\ Spelled(t.k, Parse(a, ";"))
<1>1. PICK i, p, l : i = s.k.index /\ p = s.k.param /\ l = Len(a)
  OBVIOUS
<1>2. /\ a \in Seq(Nat) /\ l \in Nat /\ l > 0 /\ i = l - 1
      /\ \A j \in 0 .. ESC_PARAM_MAX - 1 : p[j] = IF j < l THEN a[j + 1] ELSE 0
  BY <1>1, LenProperties DEF Spelled, InParam
<1>3. p \in [0 .. ESC_PARAM_MAX - 1 -> Nat] /\ s.k \in Record
      /\ s \in [k : Record, m : [Memory -> Cells], g : Seq(Cells)]
  BY <1>1 DEF Sound, Record
<1>4. i + 1 = l /\ l <= ESC_PARAM_MAX
  BY <1>1, <1>2, Measures
<1>5. t = EscSet(s, "SQUARE", p, l)
  <2>1. t = [s EXCEPT !.k = [@ EXCEPT !.index = l]]
    BY ONLY <1>1, <1>3, <1>4, t = [s EXCEPT !.k.index = @ + 1]
  <2>2. [s.k EXCEPT !.index = l] = [s.k EXCEPT !.write_state = "SQUARE", !.param = p, !.index = l]
    BY ONLY <1>1, <1>3, s.k.write_state = "SQUARE" DEF Record
  <2> QED BY ONLY <2>1, <2>2 DEF EscSet
<1>6. Still(s, t) /\ t.k.write_state = "SQUARE" /\ t.k.param = p /\ t.k.index = l
  <2>1. "SQUARE" \in WriteStates
    BY DEF WriteStates
  <2> QED BY ONLY <1>2, <1>3, <1>5, <2>1, Sound(s), StillSound
<1>7. PICK b : b = Append(a, 0)
  OBVIOUS
<1>8. Parse(a, ";") = b
  BY ONLY <1>7 DEF Parse
<1>9. b \in Seq(Nat) /\ Len(b) = l + 1 /\ (\A j \in 1 .. l : b[j] = a[j]) /\ b[l + 1] = 0
  BY ONLY <1>1, <1>2, <1>7, 0 \in Nat, AppendProperties
<1>10. ASSUME NEW j \in 0 .. ESC_PARAM_MAX - 1 PROVE p[j] = IF j < l + 1 THEN b[j + 1] ELSE 0
  <2>1. CASE j < l
    <3>1. j + 1 \in 1 .. l /\ j < l + 1
      BY ONLY <1>2, <2>1, j \in 0 .. ESC_PARAM_MAX - 1
    <3> QED BY ONLY <1>2, <1>9, <2>1, <3>1, j \in 0 .. ESC_PARAM_MAX - 1
  <2>2. CASE ~(j < l)
    <3>1. j < l + 1 => j + 1 = l + 1
      BY ONLY <1>2, <2>2, j \in 0 .. ESC_PARAM_MAX - 1
    <3> QED BY ONLY <1>2, <1>9, <2>2, <3>1, j \in 0 .. ESC_PARAM_MAX - 1
  <2> QED BY <2>1, <2>2
<1>11. InParam(t.k, b)
  <2>1. l = (l + 1) - 1
    BY ONLY <1>2
  <2> QED BY ONLY <1>4, <1>6, <1>9, <1>10, <2>1 DEF InParam
<1>12. Len(b) > 0
  BY ONLY <1>2, <1>9
<1> QED BY ONLY <1>6, <1>8, <1>9, <1>11, <1>12 DEF Spelled

\* The command at the end of a sequence, with index incremented.
LEMMA CommandCarries ==
    ASSUME NEW s, Sound(s), s.k.write_state = "SQUARE", NEW a, Spelled(s.k, a), NEW c,
           NEW u, u = [s EXCEPT !.k.index = @ + 1], NEW t, t = Ended(EscCommand(u, c)),
           NEW cmd, cmd = CommandOf("SQUARE", a, c), ~OffScreen(cmd)
    PROVE  Carries(s, t, cmd) /\ t.k.write_state = "NOMAL"
<1>1. PICK i, p, l, x, y : i = s.k.index /\ p = s.k.param /\ l = Len(a) /\ x = a[1] /\ y = a[2]
  OBVIOUS
<1>2. a \in Seq(Nat) /\ l \in Nat /\ l > 0 /\ i = l - 1
  BY <1>1, LenProperties DEF Spelled, InParam
<1>3. p \in [0 .. ESC_PARAM_MAX - 1 -> Nat] /\ s.k \in Record
      /\ s \in [k : Record, m : [Memory -> Cells], g : Seq(Cells)]
  BY <1>1 DEF Sound, Record
<1>4. p[0] = x /\ x \in Nat /\ (l >= 2 => p[1] = y /\ y \in Nat)
  <2>1. \A j \in 0 .. ESC_PARAM_MAX - 1 : p[j] = IF j < l THEN a[j + 1] ELSE 0
    BY <1>1 DEF Spelled, InParam
  <2>2. 0 \in 0 .. ESC_PARAM_MAX - 1 /\ 1 \in 0 .. ESC_PARAM_MAX - 1 /\ 0 + 1 = 1 /\ 1 + 1 = 2
    BY ONLY Measures
  <2>3. p[0] = a[1] /\ p[0] \in Nat
    BY ONLY <1>2, <1>3, <2>1, <2>2
  <2>4. l >= 2 => p[1] = a[2] /\ p[1] \in Nat
    BY ONLY <1>2, <1>3, <2>1, <2>2
  <2> QED BY ONLY <1>1, <2>3, <2>4
<1>5. Still(s, u) /\ u.k.param = p /\ u.k.index = l
  <2>0. i + 1 = l
    BY ONLY <1>2
  <2>1. u = [s EXCEPT !.k = [@ EXCEPT !.index = l]]
    BY ONLY <1>1, <1>3, <2>0, u = [s EXCEPT !.k.index = @ + 1]
  <2>2. [s.k EXCEPT !.index = l] = [s.k EXCEPT !.write_state = "SQUARE", !.param = p, !.index = l]
    BY ONLY <1>1, <1>3, s.k.write_state = "SQUARE" DEF Record
  <2>3. u = EscSet(s, "SQUARE", p, l)
    BY ONLY <2>1, <2>2 DEF EscSet
  <2>4. "SQUARE" \in WriteStates
    BY DEF WriteStates
  <2> QED BY ONLY <1>2, <1>3, <2>3, <2>4, Sound(s), StillSound
<1>6. /\ Sound(u) /\ Text(u) = Text(s) /\ At(u) = At(s) /\ Top(u) = Top(s)
      /\ u.k.col = s.k.col /\ u.k.pen = s.k.pen /\ u.k.col \in Nat /\ u.k.col < COLS
  <2>1. /\ Sound(u) /\ Text(u) = Text(s) /\ At(u) = At(s)
        /\ u.k.col = s.k.col /\ u.k.pen = s.k.pen
    BY ONLY <1>5, Sound(s), StillIs
  <2>2. u.k.col \in Nat /\ u.k.col < COLS
    BY ONLY <2>1, SoundFields
  <2> QED BY ONLY <2>1, <2>2 DEF Top
<1>7. CASE c = "m"
  <2>1. t = Ended(set_font_style(u)) /\ cmd = <<"dye">>
    BY <1>7 DEF EscCommand, CommandOf
  <2>2. PICK q \in Pens : set_font_style(u) = [u EXCEPT !.k.pen = q]
    BY <1>6, FontIs
  <2>3. PICK h : h = [s.k EXCEPT !.pen = q, !.write_state = "NOMAL", !.index = l]
    OBVIOUS
  <2>4. h \in Record /\ h.base = s.k.base /\ h.row = s.k.row /\ h.col = s.k.col
        /\ h.old_row = s.k.old_row /\ h.old_col = s.k.old_col /\ h.write_state = "NOMAL"
    BY ONLY <1>2, <1>3, <2>2, <2>3 DEF Record, WriteStates
  <2>5. t = [s EXCEPT !.k = h]
    <3>1. u = [s EXCEPT !.k = [@ EXCEPT !.index = l]]
      BY <1>1, <1>2, <1>3
    <3>2. t = [s EXCEPT !.k = [[[@ EXCEPT !.index = l] EXCEPT !.pen = q] EXCEPT !.write_state = "NOMAL"]]
      BY ONLY <1>3, <2>1, <2>2, <3>1 DEF Ended
    <3>3. [[[s.k EXCEPT !.index = l] EXCEPT !.pen = q] EXCEPT !.write_state = "NOMAL"] = h
      BY ONLY <1>3, <2>3 DEF Record
    <3> QED BY ONLY <3>2, <3>3
  <2>6. /\ t.k = h /\ t.m = s.m /\ t.g = s.g
        /\ t \in [k : Record, m : [Memory -> Cells], g : Seq(Cells)]
    BY ONLY <1>3, <2>4, <2>5
  <2>7. Sound(t)
    BY <2>4, <2>6 DEF Sound, OnScreen
  <2>8. \E r \in Pens : \E w, n : t.k = PenSet(s.k, r, w, n)
    <3>1. t.k = PenSet(s.k, q, "NOMAL", l)
      BY ONLY <2>3, <2>6 DEF PenSet
    <3> QED BY ONLY <2>2, <3>1
  <2>9. Carries(s, t, cmd)
    BY ONLY <2>1, <2>6, <2>7, <2>8 DEF Carries
  <2> QED BY ONLY <2>4, <2>6, <2>9
<1>8. CASE c = "D"
  <2>1. t = Ended(move_left(u, x)) /\ cmd = <<"left", x>>
    BY <1>1, <1>4, <1>5, <1>8 DEF EscCommand, CommandOf
  <2>2. PICK z : z = At(s) - (IF Steps(x) < s.k.col THEN Steps(x) ELSE s.k.col)
    OBVIOUS
  <2>3. Moves(u, move_left(u, x), Text(s), z)
    BY ONLY <1>4, <1>6, <2>2, SidewaysMoves DEF Steps
  <2>4. Goes(s, t, Text(s), z) /\ t.k.write_state = "NOMAL"
    <3>1. Goes(u, move_left(u, x), Text(s), z)
      BY ONLY <1>6, <2>3, MovesGoes
    <3> QED BY ONLY <1>5, <2>1, <3>1, Sound(s), SequenceGoes
  <2> QED BY ONLY <2>1, <2>2, <2>4 DEF Carries
<1>9. CASE c = "C"
  <2>1. t = Ended(move_right(u, x)) /\ cmd = <<"right", x>>
    BY <1>1, <1>4, <1>5, <1>9 DEF EscCommand, CommandOf
  <2>2. PICK z : z = At(s) + (IF Steps(x) < COLS - 1 - s.k.col THEN Steps(x) ELSE COLS - 1 - s.k.col)
    OBVIOUS
  <2>3. Moves(u, move_right(u, x), Text(s), z)
    BY ONLY <1>4, <1>6, <2>2, SidewaysMoves DEF Steps
  <2>4. Goes(s, t, Text(s), z) /\ t.k.write_state = "NOMAL"
    <3>1. Goes(u, move_right(u, x), Text(s), z)
      BY ONLY <1>6, <2>3, MovesGoes
    <3> QED BY ONLY <1>5, <2>1, <3>1, Sound(s), SequenceGoes
  <2> QED BY ONLY <2>1, <2>2, <2>4 DEF Carries
<1>10. CASE c = "H"
  <2>1. t = Ended(move_cursor(u)) /\ cmd = IF l = 1 THEN <<"goto", x>> ELSE <<"goto", x, y>>
    BY <1>1, <1>10 DEF EscCommand, CommandOf
  <2>2. PICK f : f = IF l >= 2 THEN y ELSE s.k.col
    OBVIOUS
  <2>3. x < ROWS /\ f \in Nat /\ f < COLS
    <3>1. CASE l = 1
      <4>1. cmd = <<"goto", x>> /\ f = s.k.col
        BY ONLY <2>1, <2>2, <3>1
      <4>2. x < ROWS
        BY ONLY <1>4, <4>1, ~OffScreen(cmd), Measures DEF OffScreen
      <4> QED BY ONLY <1>6, <4>1, <4>2
    <3>2. CASE l >= 2
      <4>1. cmd = <<"goto", x, y>> /\ f = y
        BY ONLY <1>2, <2>1, <2>2, <3>2
      <4>2. x < ROWS /\ y < COLS
        BY ONLY <1>4, <3>2, <4>1, ~OffScreen(cmd), Measures DEF OffScreen
      <4> QED BY ONLY <1>4, <3>2, <4>1, <4>2
    <3> QED BY ONLY <1>2, <3>1, <3>2
  <2>4. Moves(u, move_cursor(u), Text(s), Top(s) + x * COLS + f)
    <3>1. u.k.param[0] < ROWS /\ u.k.param[0] \in Nat /\ f = IF u.k.index >= 2 THEN u.k.param[1] ELSE u.k.col
      BY ONLY <1>4, <1>5, <1>6, <2>2, <2>3
    <3>2. Moves(u, move_cursor(u), Text(u), (Len(Text(u)) - AREA) + u.k.param[0] * COLS + f)
      BY ONLY <1>6, <2>3, <3>1, GotoMoves
    <3> QED BY ONLY <1>4, <1>5, <1>6, <3>2 DEF Top
  <2>5. Goes(s, t, Text(s), Top(s) + x * COLS + f) /\ t.k.write_state = "NOMAL"
    <3>1. PICK z : z = Top(s) + x * COLS + f
      OBVIOUS
    <3>2. Goes(u, move_cursor(u), Text(s), z)
      BY ONLY <1>6, <2>4, <3>1, MovesGoes
    <3>3. Goes(s, t, Text(s), z) /\ t.k.write_state = "NOMAL"
      BY ONLY <1>5, <2>1, <3>2, Sound(s), SequenceGoes
    <3> QED BY ONLY <3>1, <3>3
  <2>6. CASE l = 1
    <3>1. cmd = <<"goto", x>> /\ f = s.k.col
      BY ONLY <2>1, <2>2, <2>6
    <3> QED BY ONLY <2>5, <3>1 DEF Carries
  <2>7. CASE l >= 2
    <3>1. cmd = <<"goto", x, y>> /\ f = y
      BY ONLY <1>2, <2>1, <2>2, <2>7
    <3> QED BY ONLY <2>5, <3>1 DEF Carries
  <2> QED BY ONLY <1>2, <2>6, <2>7
<1>11. CASE c = "J" /\ x = 2
  <2>1. t = Ended(erase_in_display(u)) /\ cmd = <<"wipe">>
    BY <1>1, <1>11 DEF EscCommand, CommandOf
  <2>2. PICK w : w = SubSeq(Text(s), 1, Top(s)) \o BlankRow(AREA, s.k.pen)
    OBVIOUS
  <2>3. Moves(u, erase_in_display(u), w, Top(s))
    <3>1. u.k.param[0] = 2
      BY ONLY <1>4, <1>5, <1>11
    <3>2. Moves(u, erase_in_display(u),
                SubSeq(Text(u), 1, Len(Text(u)) - AREA) \o BlankRow(AREA, u.k.pen),
                Len(Text(u)) - AREA)
      BY ONLY <1>6, <3>1, WipeMoves
    <3> QED BY ONLY <1>6, <2>2, <3>2 DEF Top
  <2>4. Goes(s, t, w, Top(s)) /\ t.k.write_state = "NOMAL"
    <3>1. Goes(u, erase_in_display(u), w, Top(s))
      BY ONLY <1>6, <2>3, MovesGoes
    <3> QED BY ONLY <1>5, <2>1, <3>1, Sound(s), SequenceGoes
  <2> QED BY ONLY <2>1, <2>2, <2>4 DEF Carries
<1>12. CASE (c = "J" /\ x # 2) \/ c \notin {"m", "D", "C", "H", "J"}
  <2>1. t = Ended(u) /\ cmd = <<>>
    BY <1>1, <1>4, <1>5, <1>12 DEF EscCommand, CommandOf, erase_in_display
  <2>2. Goes(u, u, Text(s), At(s))
    BY <1>6, StayMoves, MovesGoes
  <2>3. Goes(s, t, Text(s), At(s)) /\ t.k.write_state = "NOMAL"
    BY ONLY <1>5, <2>1, <2>2, Sound(s), SequenceGoes
  <2> QED BY ONLY <2>1, <2>3 DEF Carries
<1> QED BY <1>7, <1>8, <1>9, <1>10, <1>11, <1>12

\* A character takes the console to where the command it completes takes the sheet, and
\* the numbers of the escape sequence stay in the parameters.
NewArgs(s, t, a, c) ==
    IF s.k.write_state = "SQUARE" /\ t.k.write_state = "SQUARE" THEN Parse(a, c) ELSE <<0>>

LEMMA WrittenCarries ==
    ASSUME NEW s, Sound(s), NEW a, Spelled(s.k, a), NEW c, NEW t, t = Written(s, c),
           NEW cmd, cmd = CommandOf(s.k.write_state, a, c), ~OffScreen(cmd),
           ~TooMany(s.k.write_state, a, c)
    PROVE  Carries(s, t, cmd) /\ Spelled(t.k, NewArgs(s, t, a, c))
<1>1. s.k.write_state \in WriteStates
  BY DEF Sound, Record
<1>2. PICK z : z = <<0>>
  OBVIOUS
<1>3. z \in Seq(Nat) /\ Len(z) = 1 /\ z[1] = 0
  BY <1>2
<1>4. CASE s.k.write_state = "NOMAL"
  <2>1. t = write_nomal(s, c) /\ cmd = CommandOf("NOMAL", a, c)
    BY <1>4 DEF Written
  <2>2. Carries(s, t, cmd) /\ t.k.write_state # "SQUARE"
    BY ONLY <1>4, <2>1, Sound(s), NormalCarries
  <2>3. NewArgs(s, t, a, c) = z
    BY ONLY <1>2, <2>2 DEF NewArgs
  <2>4. Spelled(t.k, z)
    BY ONLY <1>3, <2>2 DEF Spelled
  <2> QED BY ONLY <2>2, <2>3, <2>4
<1>5. CASE s.k.write_state = "ESC"
  <2>1. t = write_esc(s, c) /\ cmd = CommandOf("ESC", a, c)
    BY <1>5 DEF Written
  <2>2. /\ Carries(s, t, cmd)
        /\ t.k.write_state = "SQUARE" =>
              t.k.index = 0 /\ \A j \in 0 .. ESC_PARAM_MAX - 1 : t.k.param[j] = 0
    BY ONLY <2>1, Sound(s), EscCarries
  <2>3. NewArgs(s, t, a, c) = z
    BY ONLY <1>2, <1>5 DEF NewArgs
  <2>4. ASSUME t.k.write_state = "SQUARE" PROVE InParam(t.k, z)
    <3>1. 0 = Len(z) - 1 /\ 0 <= ESC_PARAM_MAX
      BY ONLY <1>3, Measures
    <3>2. \A j \in 0 .. ESC_PARAM_MAX - 1 : 0 = IF j < Len(z) THEN z[j + 1] ELSE 0
      BY ONLY <1>3, Measures
    <3> QED BY ONLY <2>2, <2>4, <3>1, <3>2 DEF InParam
  <2>5. Spelled(t.k, z)
    BY ONLY <1>3, <2>4 DEF Spelled
  <2> QED BY ONLY <2>2, <2>3, <2>5
<1>6. CASE s.k.write_state = "SQUARE"
  <2>1. t = write_esc_square(s, c) /\ cmd = CommandOf("SQUARE", a, c)
    BY <1>6 DEF Written
  <2>2. CASE c \in DOMAIN Digits
    <3>1. t = AddDigit(s, Digits[c])
      BY <2>1, <2>2 DEF write_esc_square
    <3>2. Len(a) <= ESC_PARAM_MAX
      <4>1. Len(a) \in Nat
        BY LenProperties DEF Spelled
      <4> QED BY <1>6, <2>2, <4>1, Measures DEF TooMany
    <3>3. Still(s, t) /\ t.k.write_state = "SQUARE" /\ Spelled(t.k, Parse(a, c))
      BY ONLY <1>6, <2>2, <3>1, <3>2, Sound(s), Spelled(s.k, a), DigitCarries
    <3>4. cmd = <<>>
      <4>1. c \notin {"m", "D", "C", "H", "J"}
        BY <2>2 DEF Digits
      <4> QED BY <2>1, <4>1, NoCommand
    <3>5. Carries(s, t, cmd)
      BY ONLY <3>3, <3>4, Sound(s), StillStays
    <3> QED BY ONLY <1>6, <3>3, <3>5 DEF NewArgs
  <2>3. CASE c = ";" /\ s.k.index < ESC_PARAM_MAX
    <3>1. t = [s EXCEPT !.k.index = @ + 1]
      BY <2>1, <2>3, DigitsAre DEF write_esc_square
    <3>2. Still(s, t) /\ t.k.write_state = "SQUARE" /\ Spelled(t.k, Parse(a, ";"))
      BY ONLY <1>6, <2>3, <3>1, Sound(s), Spelled(s.k, a), SeparatorCarries
    <3>3. cmd = <<>>
      BY <2>1, <2>3, NoCommand
    <3>4. Carries(s, t, cmd)
      BY ONLY <3>2, <3>3, Sound(s), StillStays
    <3> QED BY ONLY <1>6, <2>3, <3>2, <3>4 DEF NewArgs
  <2>4. CASE c \notin DOMAIN Digits /\ ~(c = ";" /\ s.k.index < ESC_PARAM_MAX)
    <3>1. PICK u : u = [s EXCEPT !.k.index = @ + 1]
      OBVIOUS
    <3>2. t = Ended(EscCommand(u, c))
      BY <2>1, <2>4, <3>1 DEF write_esc_square, Ended
    <3>3. Carries(s, t, cmd) /\ t.k.write_state = "NOMAL"
      BY ONLY <1>6, <2>1, <3>1, <3>2, Sound(s), Spelled(s.k, a), ~OffScreen(cmd), CommandCarries
    <3>4. NewArgs(s, t, a, c) = z /\ Spelled(t.k, z)
      BY ONLY <1>2, <1>3, <3>3 DEF NewArgs, Spelled
    <3> QED BY ONLY <3>3, <3>4
  <2> QED BY ONLY <2>2, <2>3, <2>4
<1> QED BY ONLY <1>1, <1>4, <1>5, <1>6 DEF WriteStates

-----------------------------------------------------------------------------
(* Every console is a sheet of paper.                                      *)

\* The variables of the sheets.
Texts == [i \in Consoles |-> gone[i] \o Screen(i)]
Ats   == [i \in Consoles |-> Len(gone[i]) + con[i].row * COLS + con[i].col]
Marks == [i \in Consoles |-> con[i].old_row * COLS + con[i].old_col]
Inks  == [i \in Consoles |-> con[i].pen]

\* Unless a cursor was sent off the screen, or parameters overflowed, each console is
\* in its part of the memory with its cursors on the screen, what has left it is a
\* number of rows, and its parameters are the numbers of its escape sequence.
Papers ==
    /\ con \in [Consoles -> Record] /\ mem \in [Memory -> Cells]
    /\ gone \in [Consoles -> Seq(Cells)]
    /\ args = [i \in Consoles |-> args[i]] /\ op = [i \in Consoles |-> op[i]]
    /\ \A i \in Consoles : /\ Sound(State(i)) /\ con[i].base = i * AREA
                           /\ Spelled(con[i], args[i])

PaperInv == wild \in BOOLEAN /\ (~wild => Papers)

LEMMA StateIs ==
    ASSUME NEW i
    PROVE  State(i).k = con[i] /\ State(i).m = mem /\ State(i).g = gone[i]
BY DEF State

\* The areas of two consoles do not overlap.
LEMMA AreasApart ==
    ASSUME NEW i \in Consoles, NEW j \in Consoles, i # j, NEW p,
           p \in i * AREA .. i * AREA + AREA - 1
    PROVE  p \notin j * AREA .. j * AREA + AREA - 1
<1>1. i \in Nat /\ j \in Nat /\ i < CONSOLE_NR
  BY Measures DEF Consoles
<1>2. PICK a : a = AREA
  OBVIOUS
<1>3. a \in Nat
  BY <1>2, Measures
<1>4. CASE i < j
  <2>1. i * a \in Nat /\ i * a + a <= j * a
    BY ONLY <1>1, <1>3, <1>4, Times
  <2>2. PICK x, y : x = i * a /\ y = j * a
    OBVIOUS
  <2>3. y \in Nat
    BY ONLY <1>1, <1>3, <2>2
  <2>4. p \in x .. x + a - 1 => p \notin y .. y + a - 1
    BY ONLY <1>3, <2>1, <2>2, <2>3
  <2> QED BY <1>2, <2>2, <2>4
<1>5. CASE j < i
  <2>1. j * a \in Nat /\ j * a + a <= i * a
    BY ONLY <1>1, <1>3, <1>5, Times
  <2>2. PICK x, y : x = i * a /\ y = j * a
    OBVIOUS
  <2>3. x \in Nat
    BY ONLY <1>1, <1>3, <2>2
  <2>4. p \in x .. x + a - 1 => p \notin y .. y + a - 1
    BY ONLY <1>3, <2>1, <2>2, <2>3
  <2> QED BY <1>2, <2>2, <2>4
<1> QED BY ONLY <1>1, <1>4, <1>5, i # j

\* Every console has its area in the display memory.
LEMMA InArea ==
    ASSUME NEW i \in Consoles
    PROVE  /\ i * AREA \in Nat /\ i * AREA + AREA <= CONSOLE_NR * AREA
           /\ \A p \in 1 .. AREA : /\ i * AREA + p - 1 \in Memory
                                   /\ i * AREA + p - 1 \in i * AREA .. i * AREA + AREA - 1
<1>1. i \in Nat /\ i < CONSOLE_NR /\ CONSOLE_NR \in Nat
  BY Measures DEF Consoles
<1>2. PICK a, n, x : a = AREA /\ n = CONSOLE_NR * AREA /\ x = i * AREA
  OBVIOUS
<1>3. a \in Nat /\ n \in Nat
  BY <1>2, Measures
<1>4. x \in Nat /\ x + a <= n
  BY ONLY <1>1, <1>2, <1>3, Times
<1>5. \A p \in 1 .. a : x + p - 1 \in 0 .. n - 1 /\ x + p - 1 \in x .. x + a - 1
  BY ONLY <1>3, <1>4
<1> QED BY ONLY <1>2, <1>4, <1>5 DEF Memory

\* The sheets when console i changes to t.
Changes(i, t) ==
    /\ con' = [con EXCEPT ![i] = t.k] /\ mem' = t.m /\ gone' = [gone EXCEPT ![i] = t.g]

Sheets(i, s, t) ==
    /\ Texts' = [Texts EXCEPT ![i] = Text(t)] /\ Texts[i] = Text(s)
    /\ Ats' = [Ats EXCEPT ![i] = At(t)] /\ Ats[i] = At(s)
    /\ Marks' = [Marks EXCEPT ![i] = t.k.old_row * COLS + t.k.old_col]
    /\ Marks[i] = s.k.old_row * COLS + s.k.old_col
    /\ Inks' = [Inks EXCEPT ![i] = t.k.pen] /\ Inks[i] = s.k.pen

LEMMA TextOf ==
    ASSUME NEW i \in Consoles, con[i].base = i * AREA
    PROVE  gone[i] \o Screen(i) = Text(State(i))
<1>1. Screen(i) = [p \in 1 .. AREA |-> mem[i * AREA + p - 1]]
  BY DEF Screen
<1>2. PICK b : b = i * AREA
  OBVIOUS
<1>3. Text(State(i)) = gone[i] \o [p \in 1 .. AREA |-> mem[b + p - 1]]
  BY <1>2, StateIs DEF Text, OnPaper
<1> QED BY ONLY <1>1, <1>2, <1>3

LEMMA ChangesSheets ==
    ASSUME Papers, NEW i \in Consoles, NEW t, Sound(t), Within(State(i), t),
           t.k.base = con[i].base, Changes(i, t)
    PROVE  Sheets(i, State(i), t)
<1>1. /\ con \in [Consoles -> Record] /\ mem \in [Memory -> Cells]
      /\ gone \in [Consoles -> Seq(Cells)] /\ \A j \in Consoles : con[j].base = j * AREA
  BY DEF Papers
<1>2. con' = [con EXCEPT ![i] = t.k] /\ mem' = t.m /\ gone' = [gone EXCEPT ![i] = t.g]
  BY DEF Changes
<1>3. /\ con'[i] = t.k /\ gone'[i] = t.g
      /\ \A j \in Consoles : j # i => con'[j] = con[j] /\ gone'[j] = gone[j]
  BY ONLY <1>1, <1>2
<1>4. Text(t) = gone'[i] \o Screen(i)'
  <2>1. PICK b : b = i * AREA
    OBVIOUS
  <2>2. Screen(i)' = [p \in 1 .. AREA |-> mem'[b + p - 1]]
    BY ONLY <2>1 DEF Screen
  <2>3. t.k.base = b
    BY ONLY <1>1, <2>1, t.k.base = con[i].base
  <2>4. Text(t) = t.g \o [p \in 1 .. AREA |-> t.m[b + p - 1]]
    BY ONLY <2>3 DEF Text, OnPaper
  <2> QED BY ONLY <1>2, <1>3, <2>2, <2>4
<1>5. ASSUME NEW j \in Consoles, j # i PROVE Screen(j)' = Screen(j)
  <2>1. \A p \in 1 .. AREA : mem'[j * AREA + p - 1] = mem[j * AREA + p - 1]
    <3> SUFFICES ASSUME NEW p \in 1 .. AREA PROVE mem'[j * AREA + p - 1] = mem[j * AREA + p - 1]
      OBVIOUS
    <3>1. PICK q : q = j * AREA + p - 1
      OBVIOUS
    <3>2. q \in Memory /\ q \in j * AREA .. j * AREA + AREA - 1
      BY <3>1, InArea
    <3>3. q \notin i * AREA .. i * AREA + AREA - 1
      BY ONLY <1>5, <3>2, i \in Consoles, AreasApart
    <3>4. t.m[q] = mem[q]
      BY <1>1, <3>2, <3>3, StateIs DEF Within
    <3> QED BY ONLY <1>2, <3>1, <3>4
  <2> QED BY ONLY <2>1 DEF Screen
<1>6. Texts' = [Texts EXCEPT ![i] = Text(t)]
  <2>1. \A j \in Consoles : gone'[j] \o Screen(j)' = IF j = i THEN Text(t) ELSE gone[j] \o Screen(j)
    BY ONLY <1>3, <1>4, <1>5
  <2> QED BY ONLY <2>1 DEF Texts
<1>7. Ats' = [Ats EXCEPT ![i] = At(t)]
  <2>1. At(t) = Len(gone'[i]) + con'[i].row * COLS + con'[i].col
    BY ONLY <1>3 DEF At
  <2>2. \A j \in Consoles : Len(gone'[j]) + con'[j].row * COLS + con'[j].col
                      = IF j = i THEN At(t) ELSE Len(gone[j]) + con[j].row * COLS + con[j].col
    BY ONLY <1>3, <2>1
  <2> QED BY ONLY <2>2 DEF Ats
<1>8. Marks' = [Marks EXCEPT ![i] = t.k.old_row * COLS + t.k.old_col]
  BY ONLY <1>3 DEF Marks
<1>9. Inks' = [Inks EXCEPT ![i] = t.k.pen]
  BY ONLY <1>3 DEF Inks
<1>10. Texts[i] = Text(State(i))
  BY <1>1, TextOf DEF Texts
<1>11. /\ Ats[i] = At(State(i))
       /\ Marks[i] = State(i).k.old_row * COLS + State(i).k.old_col
       /\ Inks[i] = State(i).k.pen
  BY StateIs DEF Ats, At, Marks, Inks
<1> QED BY ONLY <1>6, <1>7, <1>8, <1>9, <1>10, <1>11 DEF Sheets

LEMMA ChangesSound ==
    ASSUME Papers, NEW i \in Consoles, NEW t, Sound(t), t.k.base = con[i].base, Changes(i, t)
    PROVE  /\ con' \in [Consoles -> Record] /\ mem' \in [Memory -> Cells]
           /\ gone' \in [Consoles -> Seq(Cells)]
           /\ \A j \in Consoles : Sound(State(j)') /\ con'[j].base = j * AREA
<1>1. /\ con \in [Consoles -> Record] /\ mem \in [Memory -> Cells]
      /\ gone \in [Consoles -> Seq(Cells)]
      /\ \A j \in Consoles : con[j].base = j * AREA /\ Sound(State(j))
  BY DEF Papers
<1>2. con' = [con EXCEPT ![i] = t.k] /\ mem' = t.m /\ gone' = [gone EXCEPT ![i] = t.g]
  BY DEF Changes
<1>3. t.k \in Record /\ t.m \in [Memory -> Cells] /\ t.g \in Seq(Cells)
      /\ t \in [k : Record, m : [Memory -> Cells], g : Seq(Cells)]
  BY DEF Sound
<1>4. /\ con' \in [Consoles -> Record] /\ mem' \in [Memory -> Cells]
      /\ gone' \in [Consoles -> Seq(Cells)]
  BY ONLY <1>1, <1>2, <1>3
<1>5. ASSUME NEW j \in Consoles PROVE Sound(State(j)') /\ con'[j].base = j * AREA
  <2>1. PICK u : u = State(j)'
    OBVIOUS
  <2>2. u = [k |-> con'[j], m |-> mem', g |-> gone'[j]]
    BY ONLY <2>1 DEF State
  <2>3. CASE j = i
    <3>1. con'[j] = t.k /\ gone'[j] = t.g
      BY ONLY <1>1, <1>2, <2>3
    <3>2. u = t
      BY ONLY <1>2, <1>3, <2>2, <3>1
    <3> QED BY ONLY <1>1, <2>1, <2>3, <3>1, <3>2, Sound(t), t.k.base = con[i].base
  <2>4. CASE j # i
    <3>1. con'[j] = con[j] /\ gone'[j] = gone[j]
      BY ONLY <1>1, <1>2, <2>4
    <3>2. u.k = con[j] /\ u.g = gone[j] /\ u \in [k : Record, m : [Memory -> Cells], g : Seq(Cells)]
      BY ONLY <1>1, <1>4, <2>2, <3>1
    <3>3. State(j).k = con[j] /\ State(j).g = gone[j] /\ Sound(State(j))
      BY <1>1, StateIs
    <3>4. Sound(u)
      BY ONLY <3>2, <3>3 DEF Sound
    <3> QED BY ONLY <1>1, <2>1, <3>1, <3>4
  <2> QED BY <2>3, <2>4
<1> QED BY ONLY <1>4, <1>5

-----------------------------------------------------------------------------
(* Steps of the consoles are steps of the sheets.                          *)

LEMMA Remainder ==
    ASSUME NEW n \in Nat, n > 0, NEW q \in Nat, NEW c \in Nat, c < n
    PROVE  (q * n + c) % n = c
<1>1. PICK x \in Nat : x = q * n + c
  OBVIOUS
<1>2. PICK d, r : d = x \div n /\ r = x % n
  OBVIOUS
<1>3. d \in Nat /\ r \in 0 .. n - 1 /\ x = d * n + r
  BY <1>2, Quotient
<1>4. q * n \in Nat /\ d * n \in Nat
  BY <1>3
<1>5. ~(d < q)
  <2> SUFFICES ASSUME d < q PROVE FALSE
    OBVIOUS
  <2>1. d * n + n <= q * n
    BY ONLY <1>3, n \in Nat, q \in Nat, d < q, Times
  <2>2. PICK y, z : y = d * n /\ z = q * n
    OBVIOUS
  <2> QED BY ONLY <1>1, <1>3, <1>4, <2>1, <2>2, n \in Nat, c \in Nat
<1>6. ~(q < d)
  <2> SUFFICES ASSUME q < d PROVE FALSE
    OBVIOUS
  <2>1. q * n + n <= d * n
    BY ONLY <1>3, n \in Nat, q \in Nat, q < d, Times
  <2>2. PICK y, z : y = d * n /\ z = q * n
    OBVIOUS
  <2> QED BY ONLY <1>1, <1>3, <1>4, <2>1, <2>2, n \in Nat, c \in Nat, c < n
<1>7. d = q
  BY ONLY <1>3, <1>5, <1>6, q \in Nat
<1>8. PICK y : y = q * n
  OBVIOUS
<1>9. r = c
  BY ONLY <1>1, <1>3, <1>4, <1>7, <1>8, c \in Nat, n \in Nat
<1> QED BY ONLY <1>1, <1>2, <1>9

\* The column of the cursor is its place on the paper, modulo the length of a row.
LEMMA ColumnIs == ASSUME NEW s, Sound(s) PROVE At(s) % COLS = s.k.col
<1>1. PICK r \in Nat : Len(s.g) = r * COLS
  BY DEF Sound, Rows
<1>2. s.k.row \in Nat /\ s.k.col \in Nat /\ s.k.col < COLS /\ COLS \in Nat /\ COLS > 0
  BY SoundFields, Measures
<1>3. PICK q \in Nat : q = r + s.k.row
  BY <1>2
<1>4. q * COLS = r * COLS + s.k.row * COLS
  BY <1>2, <1>3
<1>5. At(s) = q * COLS + s.k.col
  BY <1>1, <1>4 DEF At
<1> QED BY ONLY <1>2, <1>5, q \in Nat, Remainder

LEMMA BlanksAre == ASSUME NEW n, NEW p PROVE Paper!Blanks(n, p) = BlankRow(n, p)
BY DEF Paper!Blanks, BlankRow

LEMMA SheetSize == Paper!SIZE = AREA
BY DEF Paper!SIZE, AREA

\* What a sheet knows of console s.
LEMMA SheetKnows ==
    ASSUME NEW i \in Consoles, NEW s, NEW t, Sound(s), Sheets(i, s, t)
    PROVE  /\ Paper!Top(i) = Top(s) /\ Paper!Col(i) = s.k.col
           /\ Texts[i] = Text(s) /\ Ats[i] = At(s) /\ Inks[i] = s.k.pen
           /\ Marks[i] = s.k.old_row * COLS + s.k.old_col
<1>1. /\ Texts[i] = Text(s) /\ Ats[i] = At(s) /\ Inks[i] = s.k.pen
      /\ Marks[i] = s.k.old_row * COLS + s.k.old_col
  BY DEF Sheets
<1>2. Paper!Top(i) = Len(Texts[i]) - Paper!SIZE
  BY DEF Paper!Top, Texts
<1>3. Paper!Col(i) = Ats[i] % COLS
  BY DEF Paper!Col, Ats
<1>4. At(s) % COLS = s.k.col
  BY ColumnIs
<1> QED BY ONLY <1>1, <1>2, <1>3, <1>4, SheetSize DEF Top

\* Going to a place on the paper is MoveTo of the sheet.
LEMMA GoesMoveTo ==
    ASSUME NEW i \in Consoles, NEW s, NEW t, Sheets(i, s, t), NEW x, NEW p, Goes(s, t, x, p)
    PROVE  Paper!MoveTo(i, x, p)
<1>1. Ats' = [Ats EXCEPT ![i] = p]
  BY DEF Sheets, Goes
<1>2. Inks[i] = s.k.pen /\ Inks' = Inks
  <2>1. Inks' = [Inks EXCEPT ![i] = s.k.pen] /\ Inks[i] = s.k.pen
    BY DEF Sheets, Goes
  <2>2. Inks \in [Consoles -> {Inks[j] : j \in Consoles}]
    BY DEF Inks
  <2> QED BY ONLY <2>1, <2>2
<1>3. Texts' = [Texts EXCEPT ![i] = IF p < Len(x) THEN x ELSE x \o Paper!Blanks(COLS, Inks[i])]
  <2>1. Paper!Blanks(COLS, Inks[i]) = BlankRow(COLS, s.k.pen)
    BY <1>2, BlanksAre
  <2>2. Text(t) = IF p < Len(x) THEN x ELSE x \o BlankRow(COLS, s.k.pen)
    BY DEF Goes
  <2>3. Texts' = [Texts EXCEPT ![i] = Text(t)]
    BY DEF Sheets
  <2> QED BY ONLY <2>1, <2>2, <2>3
<1>4. Marks' = Marks
  <2>1. PICK m : m = s.k.old_row * COLS + s.k.old_col
    OBVIOUS
  <2>2. Marks' = [Marks EXCEPT ![i] = m] /\ Marks[i] = m
    BY <2>1 DEF Sheets, Goes
  <2>3. Marks \in [Consoles -> {Marks[j] : j \in Consoles}]
    BY DEF Marks
  <2> QED BY ONLY <2>2, <2>3
<1>5. /\ Ats' = [Ats EXCEPT ![i] = p]
      /\ Texts' = [Texts EXCEPT ![i] = IF p < Len(x) THEN x ELSE x \o Paper!Blanks(COLS, Inks[i])]
      /\ Marks' = Marks /\ Inks' = Inks
  BY ONLY SMTT(40), <1>1, <1>2, <1>3, <1>4
<1> QED BY ONLY <1>5 DEF Paper!MoveTo, Ats, Texts, Marks, Inks

\* Carrying out command cmd on console i is carrying it out on its sheet.
LEMMA CarriesSheet ==
    ASSUME NEW i \in Consoles, NEW s, NEW t, Sound(s), Sheets(i, s, t), NEW cmd, Carries(s, t, cmd),
           op = [j \in Consoles |-> op[j]],
           op' = IF cmd = <<>> THEN op ELSE [op EXCEPT ![i] = cmd], wild' = wild
    PROVE  Paper!Next \/ UNCHANGED Paper!sheetVars
<1>1. /\ Paper!Top(i) = Top(s) /\ Paper!Col(i) = s.k.col
      /\ Texts[i] = Text(s) /\ Ats[i] = At(s) /\ Inks[i] = s.k.pen
      /\ Marks[i] = s.k.old_row * COLS + s.k.old_col
  BY SheetKnows
<1>2. cmd # <<>> => op'[i] = cmd /\ op' = [op EXCEPT ![i] = op'[i]]
  BY ONLY i \in Consoles, op = [j \in Consoles |-> op[j]],
          op' = IF cmd = <<>> THEN op ELSE [op EXCEPT ![i] = cmd]
<1>3. CASE cmd = <<>> /\ Goes(s, t, Text(s), At(s))
  <2>1. PICK m : m = s.k.old_row * COLS + s.k.old_col
    OBVIOUS
  <2>2. At(s) < Len(Text(s))
    BY SoundPaper
  <2>3. /\ Texts' = [Texts EXCEPT ![i] = Text(s)] /\ Ats' = [Ats EXCEPT ![i] = At(s)]
        /\ Marks' = [Marks EXCEPT ![i] = m] /\ Inks' = [Inks EXCEPT ![i] = s.k.pen]
    BY <1>3, <2>1, <2>2 DEF Sheets, Goes
  <2>4. /\ Texts \in [Consoles -> {Texts[j] : j \in Consoles}]
        /\ Ats \in [Consoles -> {Ats[j] : j \in Consoles}]
        /\ Marks \in [Consoles -> {Marks[j] : j \in Consoles}]
        /\ Inks \in [Consoles -> {Inks[j] : j \in Consoles}]
    BY DEF Texts, Ats, Marks, Inks
  <2>5. Texts' = Texts /\ Ats' = Ats /\ Marks' = Marks /\ Inks' = Inks /\ op' = op /\ wild' = wild
    BY <1>1, <1>3, <2>1, <2>3, <2>4
  <2> QED BY ONLY <2>5 DEF Paper!sheetVars, Texts, Ats, Marks, Inks
<1>4. CASE \E g : cmd = <<"print", g>>
                  /\ Goes(s, t, [Text(s) EXCEPT ![At(s) + 1] = <<g, s.k.pen>>], At(s) + 1)
  <2>1. PICK g : cmd = <<"print", g>>
                  /\ Goes(s, t, [Text(s) EXCEPT ![At(s) + 1] = <<g, s.k.pen>>], At(s) + 1)
    BY <1>4
  <2>2. op'[i] = <<"print", g>> /\ op' = [op EXCEPT ![i] = op'[i]]
    BY ONLY <1>2, <2>1
  <2>3. Paper!Command(i, "print") /\ Paper!Arg(i, 1) = g
    BY ONLY <2>2 DEF Paper!Command, Paper!Arg
  <2>4. Paper!MoveTo(i, [Texts[i] EXCEPT ![Ats[i] + 1] = <<Paper!Arg(i, 1), Inks[i]>>], Ats[i] + 1)
    <3>1. Paper!MoveTo(i, [Text(s) EXCEPT ![At(s) + 1] = <<g, s.k.pen>>], At(s) + 1)
      BY ONLY <2>1, i \in Consoles, Sheets(i, s, t), GoesMoveTo
    <3> QED BY ONLY <1>1, <2>3, <3>1 DEF Paper!MoveTo
  <2>5. Paper!Type(i)
    BY ONLY <2>3, <2>4 DEF Paper!Type, Texts, Ats, Inks
  <2> QED BY <2>2, <2>5 DEF Paper!Next
<1>5. CASE cmd = <<"feed">> /\ Goes(s, t, Text(s), At(s) - s.k.col + COLS)
  <2>1. op'[i] = <<"feed">> /\ op' = [op EXCEPT ![i] = op'[i]]
    BY ONLY <1>2, <1>5
  <2>2. Paper!Command(i, "feed")
    BY ONLY <2>1 DEF Paper!Command
  <2>3. Paper!MoveTo(i, Texts[i], Ats[i] - Paper!Col(i) + COLS)
    <3>1. Paper!MoveTo(i, Text(s), At(s) - s.k.col + COLS)
      BY ONLY <1>5, i \in Consoles, Sheets(i, s, t), GoesMoveTo
    <3> QED BY ONLY <1>1, <3>1 DEF Paper!MoveTo
  <2>4. Paper!Feed(i)
    BY ONLY <2>2, <2>3 DEF Paper!Feed, Texts, Ats
  <2> QED BY <2>1, <2>4 DEF Paper!Next
<1>6. CASE cmd = <<"return">> /\ Goes(s, t, Text(s), At(s) - s.k.col)
  <2>1. op'[i] = <<"return">> /\ op' = [op EXCEPT ![i] = op'[i]]
    BY ONLY <1>2, <1>6
  <2>2. Paper!Command(i, "return")
    BY ONLY <2>1 DEF Paper!Command
  <2>3. Paper!MoveTo(i, Texts[i], Ats[i] - Paper!Col(i))
    <3>1. Paper!MoveTo(i, Text(s), At(s) - s.k.col)
      BY ONLY <1>6, i \in Consoles, Sheets(i, s, t), GoesMoveTo
    <3> QED BY ONLY <1>1, <3>1 DEF Paper!MoveTo
  <2>4. Paper!Return(i)
    BY ONLY <2>2, <2>3 DEF Paper!Return, Texts, Ats
  <2> QED BY <2>1, <2>4 DEF Paper!Next
<1>7. CASE cmd = <<"back">> /\ Goes(s, t, Text(s), IF At(s) > Top(s) THEN At(s) - 1 ELSE At(s))
  <2>1. op'[i] = <<"back">> /\ op' = [op EXCEPT ![i] = op'[i]]
    BY ONLY <1>2, <1>7
  <2>2. Paper!Command(i, "back")
    BY ONLY <2>1 DEF Paper!Command
  <2>3. Paper!MoveTo(i, Texts[i], IF Ats[i] > Paper!Top(i) THEN Ats[i] - 1 ELSE Ats[i])
    <3>1. Paper!MoveTo(i, Text(s), IF At(s) > Top(s) THEN At(s) - 1 ELSE At(s))
      BY ONLY <1>7, i \in Consoles, Sheets(i, s, t), GoesMoveTo
    <3> QED BY ONLY <1>1, <3>1 DEF Paper!MoveTo
  <2>4. Paper!Back(i)
    BY ONLY <2>2, <2>3 DEF Paper!Back, Texts, Ats
  <2> QED BY <2>1, <2>4 DEF Paper!Next
<1>8. CASE /\ cmd = <<"rub">>
           /\ IF At(s) > Top(s)
              THEN Goes(s, t, [Text(s) EXCEPT ![At(s)] = <<" ", s.k.pen>>], At(s) - 1)
              ELSE Goes(s, t, Text(s), At(s))
  <2>1. op'[i] = <<"rub">> /\ op' = [op EXCEPT ![i] = op'[i]]
    BY ONLY <1>2, <1>8
  <2>2. Paper!Command(i, "rub")
    BY ONLY <2>1 DEF Paper!Command
  <2>3. IF Ats[i] > Paper!Top(i)
        THEN Paper!MoveTo(i, [Texts[i] EXCEPT ![Ats[i]] = <<" ", Inks[i]>>], Ats[i] - 1)
        ELSE Paper!MoveTo(i, Texts[i], Ats[i])
    <3>1. CASE At(s) > Top(s)
      <4>1. Paper!MoveTo(i, [Text(s) EXCEPT ![At(s)] = <<" ", s.k.pen>>], At(s) - 1)
        BY ONLY <1>8, <3>1, i \in Consoles, Sheets(i, s, t), GoesMoveTo
      <4>2. Paper!MoveTo(i, [Texts[i] EXCEPT ![Ats[i]] = <<" ", Inks[i]>>], Ats[i] - 1)
        BY ONLY <1>1, <4>1 DEF Paper!MoveTo
      <4> QED BY ONLY <1>1, <3>1, <4>2
    <3>2. CASE ~(At(s) > Top(s))
      <4>1. Paper!MoveTo(i, Text(s), At(s))
        BY ONLY <1>8, <3>2, i \in Consoles, Sheets(i, s, t), GoesMoveTo
      <4>2. Paper!MoveTo(i, Texts[i], Ats[i])
        BY ONLY <1>1, <4>1 DEF Paper!MoveTo
      <4> QED BY ONLY <1>1, <3>2, <4>2
    <3> QED BY ONLY <3>1, <3>2
  <2>4. Paper!Rub(i)
    BY ONLY <2>2, <2>3 DEF Paper!Rub, Texts, Ats, Inks
  <2> QED BY <2>1, <2>4 DEF Paper!Next
<1>9. CASE \E n : cmd = <<"left", n>>
              /\ Goes(s, t, Text(s), At(s) - (IF Steps(n) < s.k.col THEN Steps(n) ELSE s.k.col))
  <2>1. PICK n : cmd = <<"left", n>>
              /\ Goes(s, t, Text(s), At(s) - (IF Steps(n) < s.k.col THEN Steps(n) ELSE s.k.col))
    BY <1>9
  <2>2. op'[i] = <<"left", n>> /\ op' = [op EXCEPT ![i] = op'[i]]
    BY ONLY <1>2, <2>1
  <2>3. Paper!Command(i, "left") /\ Paper!Steps(i) = Steps(n)
    BY ONLY <2>2 DEF Paper!Command, Paper!Arg, Paper!Steps, Steps
  <2>4. Paper!MoveTo(i, Texts[i],
            Ats[i] - (IF Paper!Steps(i) < Paper!Col(i) THEN Paper!Steps(i) ELSE Paper!Col(i)))
    <3>1. Paper!MoveTo(i, Text(s), At(s) - (IF Steps(n) < s.k.col THEN Steps(n) ELSE s.k.col))
      BY ONLY <2>1, i \in Consoles, Sheets(i, s, t), GoesMoveTo
    <3> QED BY ONLY <1>1, <2>3, <3>1 DEF Paper!MoveTo
  <2>5. Paper!Left(i)
    BY ONLY <2>3, <2>4 DEF Paper!Left, Texts, Ats
  <2> QED BY <2>2, <2>5 DEF Paper!Next
<1>10. CASE \E n : cmd = <<"right", n>>
              /\ Goes(s, t, Text(s), At(s) + (IF Steps(n) < COLS - 1 - s.k.col
                                              THEN Steps(n) ELSE COLS - 1 - s.k.col))
  <2>1. PICK n : cmd = <<"right", n>>
              /\ Goes(s, t, Text(s), At(s) + (IF Steps(n) < COLS - 1 - s.k.col
                                              THEN Steps(n) ELSE COLS - 1 - s.k.col))
    BY <1>10
  <2>2. op'[i] = <<"right", n>> /\ op' = [op EXCEPT ![i] = op'[i]]
    BY ONLY <1>2, <2>1
  <2>3. Paper!Command(i, "right") /\ Paper!Steps(i) = Steps(n)
    BY ONLY <2>2 DEF Paper!Command, Paper!Arg, Paper!Steps, Steps
  <2>4. Paper!MoveTo(i, Texts[i], Ats[i] + (IF Paper!Steps(i) < COLS - 1 - Paper!Col(i)
                                            THEN Paper!Steps(i) ELSE COLS - 1 - Paper!Col(i)))
    <3>1. Paper!MoveTo(i, Text(s), At(s) + (IF Steps(n) < COLS - 1 - s.k.col
                                           THEN Steps(n) ELSE COLS - 1 - s.k.col))
      BY ONLY <2>1, i \in Consoles, Sheets(i, s, t), GoesMoveTo
    <3> QED BY ONLY <1>1, <2>3, <3>1 DEF Paper!MoveTo
  <2>5. Paper!Right(i)
    BY ONLY <2>3, <2>4 DEF Paper!Right, Texts, Ats
  <2> QED BY <2>2, <2>5 DEF Paper!Next
<1>11. CASE \E r : cmd = <<"goto", r>> /\ Goes(s, t, Text(s), Top(s) + r * COLS + s.k.col)
  <2>1. PICK r : cmd = <<"goto", r>> /\ Goes(s, t, Text(s), Top(s) + r * COLS + s.k.col)
    BY <1>11
  <2>2. op'[i] = <<"goto", r>> /\ op' = [op EXCEPT ![i] = op'[i]]
    BY ONLY <1>2, <2>1
  <2>3. Paper!Command(i, "goto") /\ Paper!Arg(i, 1) = r /\ ~(Len(op'[i]) > 2)
    BY ONLY <2>2 DEF Paper!Command, Paper!Arg
  <2>4. Paper!MoveTo(i, Texts[i], Paper!Top(i) + Paper!Arg(i, 1) * COLS
                          + (IF Len(op'[i]) > 2 THEN Paper!Arg(i, 2) ELSE Paper!Col(i)))
    <3>1. Paper!MoveTo(i, Text(s), Top(s) + r * COLS + s.k.col)
      BY ONLY <2>1, i \in Consoles, Sheets(i, s, t), GoesMoveTo
    <3> QED BY ONLY <1>1, <2>3, <3>1 DEF Paper!MoveTo
  <2>5. Paper!Goto(i)
    BY ONLY <2>3, <2>4 DEF Paper!Goto, Texts, Ats
  <2> QED BY <2>2, <2>5 DEF Paper!Next
<1>12. CASE \E r, c : cmd = <<"goto", r, c>> /\ Goes(s, t, Text(s), Top(s) + r * COLS + c)
  <2>1. PICK r, c : cmd = <<"goto", r, c>> /\ Goes(s, t, Text(s), Top(s) + r * COLS + c)
    BY <1>12
  <2>2. op'[i] = <<"goto", r, c>> /\ op' = [op EXCEPT ![i] = op'[i]]
    BY ONLY <1>2, <2>1
  <2>3. Paper!Command(i, "goto") /\ Paper!Arg(i, 1) = r /\ Paper!Arg(i, 2) = c /\ Len(op'[i]) > 2
    BY ONLY <2>2 DEF Paper!Command, Paper!Arg
  <2>4. Paper!MoveTo(i, Texts[i], Paper!Top(i) + Paper!Arg(i, 1) * COLS
                          + (IF Len(op'[i]) > 2 THEN Paper!Arg(i, 2) ELSE Paper!Col(i)))
    <3>1. Paper!MoveTo(i, Text(s), Top(s) + r * COLS + c)
      BY ONLY <2>1, i \in Consoles, Sheets(i, s, t), GoesMoveTo
    <3> QED BY ONLY <1>1, <2>3, <3>1 DEF Paper!MoveTo
  <2>5. Paper!Goto(i)
    BY ONLY <2>3, <2>4 DEF Paper!Goto, Texts, Ats
  <2> QED BY <2>2, <2>5 DEF Paper!Next
<1>13. CASE /\ cmd = <<"restore">>
            /\ Goes(s, t, Text(s), Top(s) + (s.k.old_row * COLS + s.k.old_col))
  <2>1. op'[i] = <<"restore">> /\ op' = [op EXCEPT ![i] = op'[i]]
    BY ONLY <1>2, <1>13
  <2>2. Paper!Command(i, "restore")
    BY ONLY <2>1 DEF Paper!Command
  <2>3. Paper!MoveTo(i, Texts[i], Paper!Top(i) + Marks[i])
    <3>1. Paper!MoveTo(i, Text(s), Top(s) + (s.k.old_row * COLS + s.k.old_col))
      BY ONLY <1>13, i \in Consoles, Sheets(i, s, t), GoesMoveTo
    <3> QED BY ONLY <1>1, <3>1 DEF Paper!MoveTo
  <2>4. Paper!Restore(i)
    BY ONLY <2>2, <2>3 DEF Paper!Restore, Texts, Marks
  <2> QED BY <2>1, <2>4 DEF Paper!Next
<1>14. CASE cmd = <<"wipe">>
            /\ Goes(s, t, SubSeq(Text(s), 1, Top(s)) \o BlankRow(AREA, s.k.pen), Top(s))
  <2>1. op'[i] = <<"wipe">> /\ op' = [op EXCEPT ![i] = op'[i]]
    BY ONLY <1>2, <1>14
  <2>2. Paper!Command(i, "wipe")
    BY ONLY <2>1 DEF Paper!Command
  <2>3. Paper!MoveTo(i, SubSeq(Texts[i], 1, Paper!Top(i)) \o Paper!Blanks(Paper!SIZE, Inks[i]),
                     Paper!Top(i))
    <3>1. Paper!Blanks(Paper!SIZE, Inks[i]) = BlankRow(AREA, s.k.pen)
      BY <1>1, BlanksAre, SheetSize
    <3>2. Paper!MoveTo(i, SubSeq(Text(s), 1, Top(s)) \o BlankRow(AREA, s.k.pen), Top(s))
      BY ONLY <1>14, i \in Consoles, Sheets(i, s, t), GoesMoveTo
    <3> QED BY ONLY <1>1, <3>1, <3>2 DEF Paper!MoveTo
  <2>4. Paper!Wipe(i)
    BY ONLY <2>2, <2>3 DEF Paper!Wipe, Texts, Inks
  <2> QED BY <2>1, <2>4 DEF Paper!Next
<1>15. CASE /\ cmd = <<"save">>
            /\ Sound(t) /\ t.m = s.m /\ t.g = s.g
            /\ \E w : t.k = [s.k EXCEPT !.old_row = s.k.row, !.old_col = s.k.col, !.write_state = w]
  <2>1. op'[i] = <<"save">> /\ op' = [op EXCEPT ![i] = op'[i]]
    BY ONLY <1>2, <1>15
  <2>2. Paper!Command(i, "save")
    BY ONLY <2>1 DEF Paper!Command
  <2>3. s.k \in Record
    BY SoundFields
  <2>4. /\ t.k.old_row = s.k.row /\ t.k.old_col = s.k.col /\ t.k.pen = s.k.pen
        /\ t.k.base = s.k.base /\ t.k.row = s.k.row /\ t.k.col = s.k.col
    BY ONLY <1>15, <2>3 DEF Record
  <2>5. Text(t) = Text(s) /\ At(t) = At(s)
    BY ONLY <1>15, <2>4 DEF Text, At
  <2>6. At(s) - Top(s) = s.k.row * COLS + s.k.col
    <3>1. PICK l, q, c : l = Len(s.g) /\ q = s.k.row * COLS /\ c = s.k.col
      OBVIOUS
    <3>2. l \in Nat /\ q \in Nat /\ c \in Nat /\ At(s) = l + q + c /\ Top(s) = l
      BY <3>1, SoundPaper, SoundFields, TopIs
    <3>3. (l + q + c) - l = q + c
      BY ONLY <3>2
    <3> QED BY ONLY <3>1, <3>2, <3>3
  <2>7. /\ Marks' = [Marks EXCEPT ![i] = Ats[i] - Paper!Top(i)]
        /\ Texts' = [Texts EXCEPT ![i] = Text(s)] /\ Ats' = [Ats EXCEPT ![i] = At(s)]
        /\ Inks' = [Inks EXCEPT ![i] = s.k.pen]
    BY ONLY <1>1, <2>4, <2>5, <2>6, Sheets(i, s, t) DEF Sheets
  <2>8. /\ Texts \in [Consoles -> {Texts[j] : j \in Consoles}]
        /\ Ats \in [Consoles -> {Ats[j] : j \in Consoles}]
        /\ Inks \in [Consoles -> {Inks[j] : j \in Consoles}]
    BY DEF Texts, Ats, Inks
  <2>9. Texts' = Texts /\ Ats' = Ats /\ Inks' = Inks
    BY ONLY <1>1, <2>7, <2>8
  <2>10. Paper!Save(i)
    BY ONLY <2>2, <2>7, <2>9 DEF Paper!Save, Texts, Ats, Marks, Inks
  <2> QED BY <2>1, <2>10 DEF Paper!Next
<1>16. CASE /\ cmd = <<"dye">>
            /\ Sound(t) /\ t.m = s.m /\ t.g = s.g
            /\ \E p \in Pens : \E w, n : t.k = PenSet(s.k, p, w, n)
  <2>1. op'[i] = <<"dye">> /\ op' = [op EXCEPT ![i] = op'[i]]
    BY ONLY <1>2, <1>16
  <2>2. Paper!Command(i, "dye")
    BY ONLY <2>1 DEF Paper!Command
  <2>3. s.k \in Record
    BY SoundFields
  <2>4. PICK p \in Pens : \E w, n : t.k = PenSet(s.k, p, w, n)
    BY <1>16
  <2>5. /\ t.k.old_row = s.k.old_row /\ t.k.old_col = s.k.old_col /\ t.k.pen = p
        /\ t.k.base = s.k.base /\ t.k.row = s.k.row /\ t.k.col = s.k.col
    BY ONLY <2>3, <2>4 DEF Record, PenSet
  <2>6. Text(t) = Text(s) /\ At(t) = At(s)
    BY ONLY <1>16, <2>5 DEF Text, At
  <2>7. PICK m : m = s.k.old_row * COLS + s.k.old_col
    OBVIOUS
  <2>8. /\ Marks' = [Marks EXCEPT ![i] = m]
        /\ Texts' = [Texts EXCEPT ![i] = Text(s)] /\ Ats' = [Ats EXCEPT ![i] = At(s)]
        /\ Inks' = [Inks EXCEPT ![i] = p]
    BY ONLY <2>5, <2>6, <2>7, Sheets(i, s, t) DEF Sheets
  <2>9. /\ Texts \in [Consoles -> {Texts[j] : j \in Consoles}]
        /\ Ats \in [Consoles -> {Ats[j] : j \in Consoles}]
        /\ Marks \in [Consoles -> {Marks[j] : j \in Consoles}]
    BY DEF Texts, Ats, Marks
  <2>10. Texts' = Texts /\ Ats' = Ats /\ Marks' = Marks
    BY ONLY <1>1, <2>7, <2>8, <2>9
  <2>11. \E q \in Pens : Inks' = [Inks EXCEPT ![i] = q]
    BY ONLY <2>4, <2>8
  <2>12. Paper!Dye(i)
    BY ONLY <2>2, <2>10, <2>11 DEF Paper!Dye, Texts, Ats, Marks, Inks
  <2> QED BY <2>1, <2>12 DEF Paper!Next
<1> QED BY ONLY ZenonT(60), <1>3, <1>4, <1>5, <1>6, <1>7, <1>8, <1>9, <1>10, <1>11, <1>12,
                <1>13, <1>14, <1>15, <1>16, Carries(s, t, cmd) DEF Carries

\* A command changes no other console.
LEMMA CarriesFrame ==
    ASSUME NEW s, NEW t, NEW cmd, Sound(s), Carries(s, t, cmd)
    PROVE  Sound(t) /\ Within(s, t) /\ t.k.base = s.k.base
<1>1. s.k \in Record
  BY SoundFields
<1>2. CASE \E x, p : Goes(s, t, x, p)
  BY <1>2 DEF Goes
<1>3. CASE /\ Sound(t) /\ t.m = s.m /\ t.g = s.g
           /\ \E w : t.k = [s.k EXCEPT !.old_row = s.k.row, !.old_col = s.k.col, !.write_state = w]
  <2>1. t.k.base = s.k.base
    BY ONLY <1>1, <1>3 DEF Record
  <2> QED BY <1>3, <2>1 DEF Within
<1>4. CASE /\ Sound(t) /\ t.m = s.m /\ t.g = s.g
           /\ \E p \in Pens : \E w, n : t.k = PenSet(s.k, p, w, n)
  <2>1. t.k.base = s.k.base
    BY ONLY <1>1, <1>4 DEF Record, PenSet
  <2> QED BY <1>4, <2>1 DEF Within
<1> QED BY ONLY <1>2, <1>3, <1>4, Carries(s, t, cmd) DEF Carries

\* Only an escape sequence sets colours.
LEMMA DyeInSquare ==
    ASSUME NEW w \in WriteStates, NEW a, NEW c, CommandOf(w, a, c) = <<"dye">>
    PROVE  w = "SQUARE"
<1>1. CASE w = "NOMAL"
  BY <1>1 DEF CommandOf
<1>2. CASE w = "ESC"
  BY <1>2 DEF CommandOf
<1> QED BY ONLY <1>1, <1>2, w \in WriteStates DEF WriteStates

\* Once wild, nothing is promised.
LEMMA TornNext == ASSUME wild' = TRUE PROVE Paper!Next
BY DEF Paper!Next

Step == PaperInv' /\ (Paper!Next \/ UNCHANGED Paper!sheetVars)

\* console_write takes one character: a command on the sheet, or nothing.
LEMMA WriteStep ==
    ASSUME PaperInv, NEW w \in Writers, NEW c, Write(w, c)
    PROVE  Step
<1>1. PICK i, s, a : i = Console_of[w] /\ s = State(i) /\ a = args[i]
  OBVIOUS
<1>2. PICK t, cmd : t = Written(s, c) /\ cmd = CommandOf(con[i].write_state, a, c)
  OBVIOUS
<1>3. i \in Consoles
  BY SMTT(40), <1>1, WriterAssumption
<1>4. /\ \E pen \in IF cmd = <<"dye">> /\ con[i].index > ESC_PARAM_MAX THEN Pens ELSE {t.k.pen} :
            con' = [con EXCEPT ![i] = [t.k EXCEPT !.pen = pen]]
      /\ mem' = t.m /\ gone' = [gone EXCEPT ![i] = t.g]
      /\ args' = [args EXCEPT ![i] = IF con[i].write_state = "SQUARE" /\ t.k.write_state = "SQUARE"
                                     THEN Parse(@, c) ELSE <<0>>]
      /\ op' = IF cmd = <<>> THEN op ELSE [op EXCEPT ![i] = cmd]
      /\ wild' = (wild \/ OffScreen(cmd) \/ TooMany(con[i].write_state, a, c))
  BY <1>1, <1>2 DEF Write
<1>5. wild \in BOOLEAN /\ wild' \in BOOLEAN
  BY <1>4 DEF PaperInv
<1>6. CASE wild'
  BY <1>5, <1>6, TornNext DEF PaperInv, Step
<1>7. CASE ~wild'
  <2>1. wild = FALSE /\ wild' = FALSE /\ ~OffScreen(cmd) /\ ~TooMany(con[i].write_state, a, c)
    BY ONLY <1>4, <1>5, <1>7
  <2>2. Papers
    BY ONLY <2>1, PaperInv DEF PaperInv
  <2>3. s.k = con[i] /\ s.m = mem /\ s.g = gone[i]
    BY <1>1, StateIs
  <2>4. /\ Sound(s) /\ con[i].base = i * AREA /\ Spelled(s.k, a)
        /\ con \in [Consoles -> Record]
        /\ args = [j \in Consoles |-> args[j]] /\ op = [j \in Consoles |-> op[j]]
    BY ONLY <1>1, <1>3, <2>2, <2>3 DEF Papers
  <2>5. Carries(s, t, cmd) /\ Spelled(t.k, NewArgs(s, t, a, c))
    BY ONLY <1>2, <2>1, <2>3, <2>4, WrittenCarries
  <2>6. Sound(t) /\ Within(s, t) /\ t.k.base = s.k.base
    BY ONLY <2>4, <2>5, CarriesFrame
  <2>7. con' = [con EXCEPT ![i] = t.k]
    <3>1. con[i].write_state \in WriteStates /\ con[i].index \in Nat
      BY ONLY <1>3, <2>4 DEF Record
    <3>2. ~(cmd = <<"dye">> /\ con[i].index > ESC_PARAM_MAX)
      <4> SUFFICES ASSUME cmd = <<"dye">> PROVE ~(con[i].index > ESC_PARAM_MAX)
        OBVIOUS
      <4>1. con[i].write_state = "SQUARE"
        BY ONLY <1>2, <3>1, cmd = <<"dye">>, DyeInSquare
      <4>2. con[i].index <= ESC_PARAM_MAX
        BY ONLY <2>3, <2>4, <4>1 DEF Spelled, InParam
      <4> QED BY ONLY <3>1, <4>2, Measures
    <3>3. con' = [con EXCEPT ![i] = [t.k EXCEPT !.pen = t.k.pen]]
      BY ONLY <1>4, <3>2
    <3>4. t.k \in Record
      BY ONLY <2>6, SoundFields
    <3>5. [t.k EXCEPT !.pen = t.k.pen] = t.k
      BY ONLY <3>4 DEF Record
    <3> QED BY ONLY <3>3, <3>5
  <2>8. Changes(i, t)
    BY ONLY <1>4, <2>7 DEF Changes
  <2>9. Sheets(i, s, t)
    BY ONLY <1>1, <1>3, <2>2, <2>3, <2>6, <2>8, ChangesSheets
  <2>10. Paper!Next \/ UNCHANGED Paper!sheetVars
    BY ONLY <1>3, <1>4, <2>1, <2>4, <2>5, <2>9, CarriesSheet
  <2>11. /\ con' \in [Consoles -> Record] /\ mem' \in [Memory -> Cells]
         /\ gone' \in [Consoles -> Seq(Cells)]
         /\ \A j \in Consoles : Sound(State(j)') /\ con'[j].base = j * AREA
    BY ONLY <1>3, <2>2, <2>3, <2>6, <2>8, ChangesSound
  <2>12. args' = [args EXCEPT ![i] = NewArgs(s, t, a, c)]
    BY ONLY <1>1, <1>4, <2>3 DEF NewArgs
  <2>13. /\ args' = [j \in Consoles |-> args'[j]] /\ op' = [j \in Consoles |-> op'[j]]
         /\ args'[i] = NewArgs(s, t, a, c) /\ con'[i] = t.k
         /\ \A j \in Consoles : j # i => args'[j] = args[j] /\ con'[j] = con[j]
    BY ONLY <1>3, <1>4, <2>4, <2>7, <2>12
  <2>14. \A j \in Consoles : Spelled(con'[j], args'[j])
    <3>1. \A j \in Consoles : Spelled(con[j], args[j])
      BY ONLY <2>2 DEF Papers
    <3> QED BY ONLY <2>5, <2>13, <3>1
  <2>15. Papers'
    BY ONLY <2>11, <2>13, <2>14 DEF Papers
  <2> QED BY ONLY <1>5, <2>10, <2>15 DEF Step, PaperInv
<1> QED BY <1>6, <1>7

\* console_init starts a new sheet.
LEMMA SetUpStep ==
    ASSUME PaperInv, NEW i \in Consoles, SetUp(i), wild' = wild
    PROVE  Step
<1>1. wild \in BOOLEAN /\ wild' \in BOOLEAN
  BY DEF PaperInv
<1>2. CASE wild'
  BY <1>1, <1>2, TornNext DEF PaperInv, Step
<1>3. CASE ~wild'
  <2>1. Papers
    BY <1>1, <1>3 DEF PaperInv
  <2>2. PICK s, k, h : /\ s = State(i) /\ k = con[i]
                       /\ h = [k EXCEPT !.row = 0, !.col = 0, !.old_row = 0, !.old_col = 0,
                                        !.pen = Default, !.write_state = "NOMAL"]
    OBVIOUS
  <2>3. s.k = k /\ s.m = mem /\ s.g = gone[i]
    BY <2>2, StateIs
  <2>4. /\ Sound(s) /\ k.base = i * AREA /\ con \in [Consoles -> Record]
        /\ args = [j \in Consoles |-> args[j]] /\ op = [j \in Consoles |-> op[j]]
        /\ \A j \in Consoles : Spelled(con[j], args[j])
    BY ONLY <2>1, <2>2, i \in Consoles DEF Papers
  <2>5. s \in [k : Record, m : [Memory -> Cells], g : Seq(Cells)] /\ k \in Record
    BY ONLY <2>3, <2>4 DEF Sound
  <2>6. /\ h \in Record /\ h.base = k.base /\ h.row = 0 /\ h.col = 0 /\ h.old_row = 0
        /\ h.old_col = 0 /\ h.pen = Default /\ h.write_state = "NOMAL"
    <3>1. Default \in Pens /\ "NOMAL" \in WriteStates
      BY DefaultIs DEF WriteStates
    <3> QED BY ONLY <2>2, <2>5, <3>1 DEF Record
  <2>7. PICK r, v, t : r = [s EXCEPT !.k = h] /\ v = clear_display(r) /\ t = [v EXCEPT !.g = <<>>]
    OBVIOUS
  <2>8. console_init(s) = v
    <3>1. [s EXCEPT !.k.row = 0, !.k.col = 0, !.k.old_row = 0, !.k.old_col = 0,
                    !.k.pen = Default, !.k.write_state = "NOMAL"] = r
      BY ONLY <2>2, <2>3, <2>5, <2>7
    <3> QED BY ONLY <2>7, <3>1 DEF console_init
  <2>9. /\ r.k = h /\ r.m = s.m /\ r.g = s.g
        /\ r \in [k : Record, m : [Memory -> Cells], g : Seq(Cells)]
    BY ONLY <2>5, <2>6, <2>7
  <2>10. Sound(r)
    <3>1. OnScreen(h)
      BY ONLY <2>6, Measures DEF OnScreen
    <3> QED BY ONLY <2>3, <2>4, <2>6, <2>9, <3>1 DEF Sound
  <2>11. /\ Sound(v) /\ Within(r, v) /\ v.k = h
         /\ OnPaper(<<>>, v.m, h.base, AREA) = BlankRow(AREA, Default)
    BY ONLY <2>6, <2>7, <2>9, <2>10, WipedIs
  <2>12. /\ t.k = h /\ t.m = v.m /\ t.g = <<>>
         /\ t \in [k : Record, m : [Memory -> Cells], g : Seq(Cells)]
    <3>1. v \in [k : Record, m : [Memory -> Cells], g : Seq(Cells)] /\ v.k = h
      BY ONLY <2>11 DEF Sound
    <3>2. <<>> \in Seq(Cells)
      OBVIOUS
    <3> QED BY ONLY <2>7, <3>1, <3>2
  <2>13. Len(<<>>) = 0 /\ 0 * COLS = 0
    BY Measures
  <2>14. Sound(t)
    <3>1. Rows(<<>>)
      BY ONLY <2>13 DEF Rows
    <3> QED BY ONLY <2>11, <2>12, <3>1 DEF Sound
  <2>15. Within(s, t)
    BY ONLY <2>3, <2>6, <2>9, <2>11, <2>12 DEF Within
  <2>16. /\ Changes(i, t) /\ args' = [args EXCEPT ![i] = <<0>>]
         /\ op' = [op EXCEPT ![i] = <<"open">>]
    BY ONLY <2>2, <2>8, <2>11, <2>12, SetUp(i) DEF SetUp, Changes
  <2>17. t.k.base = con[i].base /\ Within(State(i), t)
    BY ONLY <2>2, <2>6, <2>12, <2>15
  <2>18. Sheets(i, State(i), t)
    BY ONLY <2>1, <2>14, <2>16, <2>17, i \in Consoles, ChangesSheets
  <2>19. /\ Texts' = [Texts EXCEPT ![i] = Paper!Blanks(Paper!SIZE, Default)]
         /\ Ats' = [Ats EXCEPT ![i] = 0] /\ Marks' = [Marks EXCEPT ![i] = 0]
         /\ Inks' = [Inks EXCEPT ![i] = Default]
    <3>1. Text(t) = BlankRow(AREA, Default)
      BY ONLY <2>11, <2>12 DEF Text
    <3>2. Paper!Blanks(Paper!SIZE, Default) = BlankRow(AREA, Default)
      BY BlanksAre, SheetSize
    <3>3. At(t) = 0
      BY ONLY <2>6, <2>12, <2>13 DEF At
    <3>4. t.k.old_row * COLS + t.k.old_col = 0 /\ t.k.pen = Default
      BY ONLY <2>6, <2>12, <2>13
    <3> QED BY ONLY <2>18, <3>1, <3>2, <3>3, <3>4 DEF Sheets
  <2>20. op'[i] = <<"open">> /\ op' = [op EXCEPT ![i] = op'[i]]
    BY ONLY <2>4, <2>16, i \in Consoles
  <2>21. Paper!Open(i)
    <3>1. Paper!Command(i, "open")
      BY ONLY <2>20 DEF Paper!Command
    <3> QED BY ONLY <2>19, <3>1 DEF Paper!Open, Texts, Ats, Marks, Inks
  <2>22. Paper!Next
    BY ONLY <2>20, <2>21, i \in Consoles DEF Paper!Next
  <2>23. /\ con' \in [Consoles -> Record] /\ mem' \in [Memory -> Cells]
         /\ gone' \in [Consoles -> Seq(Cells)]
         /\ \A j \in Consoles : Sound(State(j)') /\ con'[j].base = j * AREA
    BY ONLY <2>1, <2>14, <2>16, <2>17, i \in Consoles, ChangesSound
  <2>24. /\ args' = [j \in Consoles |-> args'[j]] /\ op' = [j \in Consoles |-> op'[j]]
         /\ args'[i] = <<0>> /\ con'[i] = h
         /\ \A j \in Consoles : j # i => args'[j] = args[j] /\ con'[j] = con[j]
    BY ONLY <2>4, <2>12, <2>16, i \in Consoles DEF Changes
  <2>25. \A j \in Consoles : Spelled(con'[j], args'[j])
    <3>1. PICK z : z = <<0>>
      OBVIOUS
    <3>2. z \in Seq(Nat) /\ Len(z) > 0
      BY ONLY <3>1
    <3>3. Spelled(h, z)
      BY ONLY <2>6, <3>2 DEF Spelled
    <3> QED BY ONLY <2>4, <2>24, <3>1, <3>3
  <2>26. Papers'
    BY ONLY <2>23, <2>24, <2>25 DEF Papers
  <2> QED BY ONLY <1>1, <2>22, <2>26 DEF Step, PaperInv
<1> QED BY <1>2, <1>3

\* The place is computed: the command of the console is over.
LEMMA UpdateStep ==
    ASSUME PaperInv, NEW w \in Writers, UpdatePos(w)
    PROVE  Step
<1>1. PICK i : i = Console_of[w]
  OBVIOUS
<1>2. i \in Consoles
  BY <1>1, WriterAssumption
<1>3. /\ op' = [op EXCEPT ![i] = <<>>] /\ con' = con /\ mem' = mem /\ gone' = gone
      /\ args' = args /\ wild' = wild
  BY <1>1 DEF UpdatePos
<1>4. wild \in BOOLEAN /\ wild' \in BOOLEAN
  BY <1>3 DEF PaperInv
<1>5. CASE wild'
  BY <1>4, <1>5, TornNext DEF PaperInv, Step
<1>6. CASE ~wild'
  <2>1. Papers
    BY <1>3, <1>4, <1>6 DEF PaperInv
  <2>2. op = [j \in Consoles |-> op[j]]
    BY ONLY <2>1 DEF Papers
  <2>3. /\ op'[i] = <<>> /\ op' = [op EXCEPT ![i] = op'[i]]
        /\ op' = [j \in Consoles |-> op'[j]]
    BY ONLY <1>2, <1>3, <2>2
  <2>4. Paper!Rest(i)
    <3>1. Texts' = Texts /\ Ats' = Ats /\ Marks' = Marks /\ Inks' = Inks
      BY ONLY <1>3 DEF Texts, Ats, Marks, Inks, Screen
    <3> QED BY ONLY <2>3, <3>1 DEF Paper!Rest, Texts, Ats, Marks, Inks
  <2>5. Paper!Next
    BY ONLY <1>2, <2>3, <2>4 DEF Paper!Next
  <2>6. Papers'
    <3>1. \A j \in Consoles : State(j)' = State(j)
      BY ONLY <1>3 DEF State
    <3> QED BY ONLY <1>3, <2>1, <2>3, <3>1 DEF Papers
  <2> QED BY ONLY <1>4, <2>5, <2>6 DEF Step, PaperInv
<1> QED BY <1>5, <1>6

\* The other steps leave the sheets alone.
LEMMA SheetsStay ==
    ASSUME PaperInv, UNCHANGED <<con, mem, gone, args, op, wild>>
    PROVE  Step
<1>1. /\ con' = con /\ mem' = mem /\ gone' = gone /\ args' = args /\ op' = op /\ wild' = wild
  OBVIOUS
<1>2. Texts' = Texts /\ Ats' = Ats /\ Marks' = Marks /\ Inks' = Inks
  BY ONLY <1>1 DEF Texts, Ats, Marks, Inks, Screen
<1>3. UNCHANGED Paper!sheetVars
  BY ONLY <1>1, <1>2 DEF Paper!sheetVars, Texts, Ats, Marks, Inks
<1>4. Papers => Papers'
  <2>1. \A j \in Consoles : State(j)' = State(j)
    BY ONLY <1>1 DEF State
  <2> QED BY ONLY <1>1, <2>1 DEF Papers
<1> QED BY <1>1, <1>3, <1>4 DEF PaperInv, Step

\* PaperInv is inductive, and every step is one of the sheets.
LEMMA ConsoleStep == PaperInv /\ [ConsoleNext]_displayVars => Step
<1> SUFFICES ASSUME PaperInv, [ConsoleNext]_displayVars PROVE Step
  OBVIOUS
<1>1. ASSUME NEW w \in Writers, NEW c \in Chars[w], Write(w, c) PROVE Step
  BY ONLY <1>1, PaperInv, WriteStep
<1>2. ASSUME NEW w \in Writers, UpdatePos(w) PROVE Step
  BY ONLY <1>2, PaperInv, UpdateStep
<1>3. ASSUME NEW w \in Writers, UpdateOut(w) PROVE Step
  <2>1. UNCHANGED <<con, mem, gone, args, op, wild>>
    BY <1>3 DEF UpdateOut
  <2> QED BY ONLY <2>1, PaperInv, SheetsStay
<1>4. ASSUME NEW i \in Consoles, open_console(i) PROVE Step
  <2>1. SetUp(i) /\ wild' = wild
    BY <1>4 DEF open_console
  <2> QED BY ONLY <2>1, PaperInv, i \in Consoles, SetUpStep
<1>5. ASSUME NEW i \in Consoles, console_select(i) PROVE Step
  <2>1. wild' = wild /\ (SetUp(i) \/ UNCHANGED <<con, mem, gone, args, op>>)
    BY <1>5 DEF console_select
  <2>2. CASE SetUp(i)
    BY ONLY <2>1, <2>2, PaperInv, i \in Consoles, SetUpStep
  <2>3. CASE UNCHANGED <<con, mem, gone, args, op>>
    BY ONLY <2>1, <2>3, PaperInv, SheetsStay
  <2> QED BY <2>1, <2>2, <2>3
<1>6. CASE UNCHANGED displayVars
  <2>1. UNCHANGED <<con, mem, gone, args, op, wild>>
    BY <1>6 DEF displayVars, consoleVars
  <2> QED BY ONLY <2>1, PaperInv, SheetsStay
<1> QED BY <1>1, <1>2, <1>3, <1>4, <1>5, <1>6 DEF ConsoleNext

\* A cell of the screen has a row and a column of it.
LEMMA RowAndColumn ==
    ASSUME NEW p \in 0 .. AREA - 1
    PROVE  /\ p \div COLS \in Nat /\ p \div COLS < ROWS /\ p % COLS \in Nat /\ p % COLS < COLS
           /\ p = (p \div COLS) * COLS + (p % COLS)
<1>1. PICK n, r, a : n = COLS /\ r = ROWS /\ a = AREA
  OBVIOUS
<1>2. n \in Nat /\ n > 0 /\ r \in Nat /\ a \in Nat /\ a = r * n
  BY <1>1, Measures
<1>3. p \in Nat /\ p < a
  BY <1>1, <1>2
<1>4. PICK d, m : d = p \div n /\ m = p % n
  OBVIOUS
<1>5. d \in Nat /\ m \in 0 .. n - 1 /\ p = d * n + m
  BY ONLY <1>2, <1>3, <1>4, Quotient
<1>6. d < r
  <2> SUFFICES ASSUME ~(d < r) PROVE FALSE
    OBVIOUS
  <2>1. r * n \in Nat /\ d * n \in Nat /\ r * n <= d * n
    <3>1. CASE r = d
      BY ONLY <1>2, <1>5, <3>1
    <3>2. CASE r < d
      <4>1. r * n \in Nat /\ r * n + n <= d * n
        BY ONLY <1>2, <1>5, <3>2, Times
      <4>2. d * n \in Nat
        BY ONLY <1>2, <1>5
      <4>3. PICK y, z : y = r * n /\ z = d * n
        OBVIOUS
      <4>4. y <= z
        BY ONLY <1>2, <4>1, <4>2, <4>3
      <4> QED BY ONLY <4>1, <4>2, <4>3, <4>4
    <3> QED BY ONLY <1>2, <1>5, <3>1, <3>2, ~(d < r)
  <2>2. PICK y, z : y = r * n /\ z = d * n
    OBVIOUS
  <2> QED BY ONLY <1>2, <1>3, <1>5, <2>1, <2>2
<1> QED BY ONLY <1>1, <1>2, <1>4, <1>5, <1>6

LEMMA NewConsoleIs ==
    ASSUME NEW i \in Consoles, NEW p \in 0 .. AREA - 1
    PROVE  /\ NewConsole(i, p) \in Record /\ OnScreen(NewConsole(i, p))
           /\ NewConsole(i, p).base = i * AREA /\ NewConsole(i, p).write_state = "NOMAL"
           /\ NewConsole(i, p).pen = Default
           /\ NewConsole(i, p).row * COLS + NewConsole(i, p).col = p
           /\ NewConsole(i, p).old_row * COLS + NewConsole(i, p).old_col = p
<1>1. PICK b, d, m : b = i * AREA /\ d = p \div COLS /\ m = p % COLS
  OBVIOUS
<1>2. d \in Nat /\ d < ROWS /\ m \in Nat /\ m < COLS /\ p = d * COLS + m
  BY <1>1, RowAndColumn
<1>3. b \in Nat /\ Default \in Pens /\ "NOMAL" \in WriteStates
  BY <1>1, InArea, DefaultIs DEF WriteStates
<1>4. PICK z, k : z = [j \in 0 .. ESC_PARAM_MAX - 1 |-> 0] /\ k = NewConsole(i, p)
  OBVIOUS
<1>5. z \in [0 .. ESC_PARAM_MAX - 1 -> Nat]
  BY ONLY <1>4
<1>6. k = [base |-> b, row |-> d, col |-> m, old_row |-> d, old_col |-> m, pen |-> Default,
           write_state |-> "NOMAL", param |-> z, index |-> 0]
  BY ONLY <1>1, <1>4 DEF NewConsole
<1>7. k \in Record
  BY ONLY <1>2, <1>3, <1>5, <1>6 DEF Record
<1>8. /\ k.base = b /\ k.row = d /\ k.col = m /\ k.old_row = d /\ k.old_col = m
      /\ k.pen = Default /\ k.write_state = "NOMAL"
  BY ONLY <1>6
<1>9. OnScreen(k)
  BY ONLY <1>2, <1>8 DEF OnScreen
<1> QED BY ONLY <1>1, <1>2, <1>4, <1>7, <1>8, <1>9

LEMMA PaperInvInit == ConsoleInit => PaperInv /\ Paper!Init
<1> SUFFICES ASSUME ConsoleInit PROVE PaperInv /\ Paper!Init
  OBVIOUS
<1>1. PICK p \in BiosCursor : con = [i \in Consoles |-> NewConsole(i, IF i = 0 THEN p ELSE 0)]
  BY DEF ConsoleInit
<1>2. /\ mem = [q \in Memory |-> <<IF q < AREA THEN "x" ELSE " ", Default>>]
      /\ gone = [i \in Consoles |-> <<>>] /\ args = [i \in Consoles |-> <<0>>]
      /\ op = [i \in Consoles |-> <<>>] /\ wild = FALSE
  BY DEF ConsoleInit
<1>3. p \in 0 .. AREA - 1 /\ 0 \in 0 .. AREA - 1
  BY WriterAssumption, Measures
<1>4. ASSUME NEW i \in Consoles
      PROVE  \E q \in 0 .. AREA - 1 : con[i] = NewConsole(i, q)
  BY <1>1, <1>3
<1>5. con \in [Consoles -> Record]
  <2>1. \A i \in Consoles : con[i] \in Record
    BY <1>4, NewConsoleIs
  <2> QED BY ONLY <1>1, <2>1
<1>6. mem \in [Memory -> Cells]
  <2>1. Default \in Pens
    BY DefaultIs
  <2> QED BY ONLY <1>2, <2>1 DEF Cells
<1>7. gone \in [Consoles -> Seq(Cells)]
  <2>1. <<>> \in Seq(Cells)
    OBVIOUS
  <2>2. PICK e : e = <<>>
    OBVIOUS
  <2> QED BY ONLY <1>2, <2>1, <2>2
<1>8. Len(<<>>) = 0 /\ Rows(<<>>)
  <2>1. Len(<<>>) = 0 /\ 0 * COLS = 0
    BY Measures
  <2> QED BY ONLY <2>1 DEF Rows
<1>9. ASSUME NEW i \in Consoles
      PROVE  /\ Sound(State(i)) /\ con[i].base = i * AREA /\ Spelled(con[i], args[i])
             /\ Len(gone[i] \o Screen(i)) = Paper!SIZE
             /\ Ats[i] \in 0 .. Paper!SIZE - 1 /\ Marks[i] = Ats[i] /\ Inks[i] = Default
  <2>1. PICK q \in 0 .. AREA - 1 : con[i] = NewConsole(i, q)
    BY <1>4
  <2>2. PICK k, s : k = con[i] /\ s = State(i)
    OBVIOUS
  <2>3. /\ k \in Record /\ OnScreen(k) /\ k.base = i * AREA /\ k.write_state = "NOMAL"
        /\ k.pen = Default /\ k.row * COLS + k.col = q /\ k.old_row * COLS + k.old_col = q
    BY ONLY <2>1, <2>2, q \in 0 .. AREA - 1, i \in Consoles, NewConsoleIs
  <2>4. gone[i] = <<>> /\ args[i] = <<0>>
    BY ONLY <1>2, i \in Consoles
  <2>5. s = [k |-> k, m |-> mem, g |-> <<>>]
    BY ONLY <2>2, <2>4 DEF State
  <2>6. s \in [k : Record, m : [Memory -> Cells], g : Seq(Cells)] /\ s.k = k /\ s.g = <<>>
    <3>1. <<>> \in Seq(Cells)
      OBVIOUS
    <3> QED BY ONLY <1>6, <2>3, <2>5, <3>1
  <2>7. i * AREA + AREA <= CONSOLE_NR * AREA
    BY ONLY i \in Consoles, InArea
  <2>8. Sound(s)
    BY ONLY <1>8, <2>3, <2>6, <2>7 DEF Sound
  <2>9. Spelled(k, <<0>>)
    <3>1. PICK z : z = <<0>>
      OBVIOUS
    <3>2. z \in Seq(Nat) /\ Len(z) > 0
      BY ONLY <3>1
    <3> QED BY ONLY <2>3, <3>1, <3>2 DEF Spelled
  <2>10. Len(gone[i] \o Screen(i)) = AREA
    <3>1. Len(Text(s)) = Len(s.g) + AREA
      BY ONLY <2>8, SoundPaper
    <3>2. gone[i] \o Screen(i) = Text(s)
      BY ONLY <2>2, <2>3, i \in Consoles, TextOf
    <3> QED BY ONLY <1>8, <2>6, <3>1, <3>2, Measures
  <2>11. Ats[i] = q
    <3>1. Ats[i] = Len(gone[i]) + k.row * COLS + k.col
      BY ONLY <2>2, i \in Consoles DEF Ats
    <3>2. k.row \in Nat /\ k.col \in Nat /\ COLS \in Nat
      BY ONLY <2>3, Measures DEF Record
    <3>3. PICK x, y : x = k.row * COLS /\ y = k.col
      OBVIOUS
    <3>4. x \in Nat /\ y \in Nat
      BY ONLY <3>2, <3>3
    <3>5. 0 + x + y = x + y
      BY ONLY <3>4
    <3> QED BY ONLY <1>8, <2>3, <2>4, <3>1, <3>3, <3>5
  <2>12. Marks[i] = q /\ Inks[i] = Default
    BY ONLY <2>2, <2>3, i \in Consoles DEF Marks, Inks
  <2> QED BY ONLY <2>1, <2>2, <2>3, <2>4, <2>8, <2>9, <2>10, <2>11, <2>12, SheetSize
<1>10. Papers
  <2>1. args = [i \in Consoles |-> args[i]] /\ op = [i \in Consoles |-> op[i]]
    BY ONLY <1>2
  <2> QED BY ONLY <1>5, <1>6, <1>7, <1>9, <2>1 DEF Papers
<1>11. Inks = [i \in Consoles |-> Default]
  <2>1. \A i \in Consoles : Inks[i] = Default
    BY ONLY <1>9
  <2> QED BY ONLY <2>1 DEF Inks
<1>12. \A i \in Consoles : /\ Len(Texts[i]) = Paper!SIZE /\ Ats[i] \in 0 .. Paper!SIZE - 1
                           /\ Marks[i] = Ats[i]
  BY ONLY <1>9 DEF Texts
<1>13. Paper!Init
  BY ONLY <1>2, <1>11, <1>12 DEF Paper!Init, Texts, Ats, Marks, Inks
<1> QED BY <1>2, <1>10, <1>13 DEF PaperInv

\* ShowsPaper: every step of console_write, console_init and console_select (console.c:40
\* to 411) is a step of one sheet of paper, with the command a reader of the output would
\* name, or changes no sheet: for any number of consoles, any size of the screen and any
\* output.
THEOREM ConsolesArePaper == ConsoleSpec => ShowsPaper
<1>1. ConsoleInit => PaperInv /\ Paper!Init
  BY PaperInvInit
<1>2. PaperInv /\ [ConsoleNext]_displayVars => PaperInv' /\ [Paper!Next]_(Paper!sheetVars)
  BY ConsoleStep DEF Step
<1> QED BY <1>1, <1>2, PTL DEF ConsoleSpec, ShowsPaper, Paper!Spec

-----------------------------------------------------------------------------
(* Screen: the keyboard and the consoles together.                         *)

Names(b) == b.code \in FCodes => KEY_F[b.code] \in Ttys

AllName(w) == IsSeq(w) /\ \A j \in 1 .. Len(w) : Names(w[j])

\* The terminal chosen exists, and so do those that bytes on their way may choose.
BytesInv == curr_tty \in Ttys /\ AllName(wire)

LEMMA NamesCode ==
    ASSUME NEW code, NEW b \in {Make(code), Break(code)}, code \in FCodes => KEY_F[code] \in Ttys
    PROVE  Names(b)
<1>1. b.code = code
  BY CodeOf
<1> QED BY <1>1 DEF Names

LEMMA NamesAppend ==
    ASSUME NEW w, AllName(w), NEW b, Names(b)
    PROVE  AllName(Append(w, b))
<1>1. PICK v : v = Append(w, b)
  OBVIOUS
<1>2. PICK n : n = Len(w)
  OBVIOUS
<1>3. /\ IsSeq(v) /\ n \in Nat /\ Len(v) = n + 1
      /\ \A j \in 1 .. n : v[j] = w[j]
      /\ v[n + 1] = b
  BY AppendIsSeq, <1>1, <1>2 DEF AllName
<1>4. \A j \in 1 .. n + 1 : Names(v[j])
  <2> SUFFICES ASSUME NEW j \in 1 .. n + 1 PROVE Names(v[j])
    OBVIOUS
  <2>1. CASE j = n + 1
    BY <1>3, <2>1
  <2>2. CASE j # n + 1
    <3>1. j \in 1 .. n /\ v[j] = w[j]
      BY ONLY <1>3, <2>2, j \in 1 .. n + 1
    <3> QED BY <1>2, <3>1 DEF AllName
  <2> QED BY <2>1, <2>2
<1> QED BY ONLY <1>1, <1>3, <1>4 DEF AllName

LEMMA NamesSend ==
    ASSUME NEW w, AllName(w), NEW q,
           \/ q = <<>>
           \/ \E a : q = <<a>> /\ Names(a)
           \/ \E a, b : q = <<a, b>> /\ Names(a) /\ Names(b)
           \/ \E a, b, c, d : q = <<a, b, c, d>> /\ Names(a) /\ Names(b) /\ Names(c) /\ Names(d)
           \/ \E a, b, c, d, e, f :
                 /\ q = <<a, b, c, d, e, f>> /\ Names(a) /\ Names(b) /\ Names(c) /\ Names(d)
                 /\ Names(e) /\ Names(f)
    PROVE  AllName(w \o q)
<1>1. IsSeq(w)
  BY ONLY AllName(w) DEF AllName
<1>2. CASE q = <<>>
  BY ONLY <1>1, <1>2, AllName(w), Concat
<1>3. CASE \E a : q = <<a>> /\ Names(a)
  <2>1. PICK a : q = <<a>> /\ Names(a)
    BY ONLY <1>3
  <2>2. AllName(Append(w, a))
    BY ONLY <2>1, AllName(w), NamesAppend
  <2>3. w \o <<a>> = Append(w, a)
    BY ONLY <1>1, Concat
  <2> QED BY ONLY <2>1, <2>2, <2>3
<1>4. CASE \E a, b : q = <<a, b>> /\ Names(a) /\ Names(b)
  <2>1. PICK a, b : q = <<a, b>> /\ Names(a) /\ Names(b)
    BY ONLY <1>4
  <2>2. AllName(Append(Append(w, a), b))
    BY ONLY <2>1, AllName(w), NamesAppend
  <2>3. w \o <<a, b>> = Append(Append(w, a), b)
    BY ONLY <1>1, Concat
  <2> QED BY ONLY <2>1, <2>2, <2>3
<1>5. CASE \E a, b, c, d : q = <<a, b, c, d>> /\ Names(a) /\ Names(b) /\ Names(c) /\ Names(d)
  <2>1. PICK a, b, c, d : q = <<a, b, c, d>> /\ Names(a) /\ Names(b) /\ Names(c) /\ Names(d)
    BY ONLY <1>5
  <2>2. AllName(Append(Append(Append(Append(w, a), b), c), d))
    BY ONLY <2>1, AllName(w), NamesAppend
  <2>3. w \o <<a, b, c, d>> = Append(Append(Append(Append(w, a), b), c), d)
    BY ONLY <1>1, Concat
  <2> QED BY ONLY <2>1, <2>2, <2>3
<1>6. CASE \E a, b, c, d, e, f :
                 /\ q = <<a, b, c, d, e, f>> /\ Names(a) /\ Names(b) /\ Names(c) /\ Names(d)
                 /\ Names(e) /\ Names(f)
  <2>1. PICK a, b, c, d, e, f :
                 /\ q = <<a, b, c, d, e, f>> /\ Names(a) /\ Names(b) /\ Names(c) /\ Names(d)
                 /\ Names(e) /\ Names(f)
    BY ONLY <1>6
  <2>2. AllName(Append(Append(Append(Append(Append(Append(w, a), b), c), d), e), f))
    BY ONLY <2>1, AllName(w), NamesAppend
  <2>3. w \o <<a, b, c, d, e, f>>
          = Append(Append(Append(Append(Append(Append(w, a), b), c), d), e), f)
    BY ONLY SMTT(40), <1>1, Concat
  <2> QED BY ONLY <2>1, <2>2, <2>3
<1> QED BY <1>2, <1>3, <1>4, <1>5, <1>6

LEMMA NamesBytes ==
    ASSUME NEW w, AllName(w), NEW k \in Keys
    PROVE  AllName(w \o MakeBytes(k)) /\ AllName(w \o BreakBytes(k))
<1>1. \A c : c \notin FCodes => Names(Make(c)) /\ Names(Break(c))
  BY NamesCode
<1>2. Names(KEY_E0) /\ Names(KEY_E1)
  BY <1>1 DEF KEY_E0, KEY_E1, FCodes
<1>3. CASE k = "Pause"
  <2>1. /\ MakeBytes(k) = <<KEY_E1, Make("1D"), Make("45"), KEY_E1, Break("1D"), Break("45")>>
        /\ BreakBytes(k) = <<>>
    BY ONLY <1>3 DEF MakeBytes, BreakBytes, Extended
  <2>2. Names(Make("1D")) /\ Names(Make("45")) /\ Names(Break("1D")) /\ Names(Break("45"))
    BY ONLY <1>1 DEF FCodes
  <2> QED BY ONLY AllName(w), <1>2, <2>1, <2>2, NamesSend
<1>4. CASE k = "PrtSc"
  <2>1. /\ MakeBytes(k) = <<KEY_E0, Make("2A"), KEY_E0, Make("37")>>
        /\ BreakBytes(k) = <<KEY_E0, Break("37"), KEY_E0, Break("2A")>>
    BY ONLY <1>4 DEF MakeBytes, BreakBytes, Extended
  <2>2. Names(Make("2A")) /\ Names(Make("37")) /\ Names(Break("2A")) /\ Names(Break("37"))
    BY ONLY <1>1 DEF FCodes
  <2> QED BY ONLY AllName(w), <1>2, <2>1, <2>2, NamesSend
<1>5. CASE k \notin {"Pause", "PrtSc"}
  <2>1. PICK c : c = Code[k]
    OBVIOUS
  <2>2. c \in FCodes => KEY_F[c] \in Ttys
    <3>1. CASE k \in FKeys
      <4>1. KEY_F[c] = FNumber(k)
        BY <2>1, <3>1, Codes DEF FKeys, FNumber, KEY_F
      <4> QED BY <3>1, <4>1, FKeysAssumption
    <3>2. CASE k \notin FKeys
      BY <1>5, <2>1, <3>2, Codes, KeysAssumption DEF FCodes, FKeys, Modifiers, Others
    <3> QED BY <3>1, <3>2
  <2>3. Names(Make(c)) /\ Names(Break(c))
    BY ONLY <2>2, NamesCode
  <2>4. CASE k \in Extended
    <3>1. MakeBytes(k) = <<KEY_E0, Make(c)>> /\ BreakBytes(k) = <<KEY_E0, Break(c)>>
      BY ONLY <1>5, <2>1, <2>4 DEF MakeBytes, BreakBytes
    <3> QED BY ONLY AllName(w), <1>2, <2>3, <3>1, NamesSend
  <2>5. CASE k \notin Extended
    <3>1. MakeBytes(k) = <<Make(c)>> /\ BreakBytes(k) = <<Break(c)>>
      BY ONLY <1>5, <2>1, <2>5 DEF MakeBytes, BreakBytes
    <3> QED BY ONLY AllName(w), <2>3, <3>1, NamesSend
  <2> QED BY <2>4, <2>5
<1> QED BY <1>3, <1>4, <1>5

LEMMA BytesInvInit == Init => BytesInv
<1>1. Init => wire = <<>> /\ curr_tty \in Ttys
  BY TtysAssumption DEF Init
<1>2. AllName(<<>>)
  BY EmptyIsSeq DEF AllName
<1> QED BY <1>1, <1>2 DEF BytesInv

LEMMA InterruptSelects ==
    ASSUME BytesInv, handle_kbd
    PROVE  curr_tty' \in Ttys /\ opened' = opened /\ AllName(wire')
<1>1. PICK b : b = Head(wire)
  OBVIOUS
<1>2. wire # <<>> /\ wire' = Tail(wire)
  BY ONLY handle_kbd DEF handle_kbd
<1>3. IsSeq(wire) /\ AllName(wire) /\ curr_tty \in Ttys
  BY ONLY BytesInv DEF BytesInv, AllName
<1>4. PICK n : n = Len(wire)
  OBVIOUS
<1>5. PICK v : v = Tail(wire)
  OBVIOUS
<1>6. /\ n \in Nat /\ n > 0 /\ IsSeq(v) /\ Len(v) = n - 1 /\ b = wire[1]
      /\ \A j \in 1 .. n - 1 : v[j] = wire[j + 1]
  BY ONLY <1>1, <1>2, <1>3, <1>4, <1>5, TailIsSeq
<1>7. \A j \in 1 .. n : Names(wire[j])
  BY ONLY <1>3, <1>4 DEF AllName
<1>8. Names(b)
  BY ONLY <1>6, <1>7
<1>9. AllName(wire')
  <2>1. \A j \in 1 .. n - 1 : Names(v[j])
    BY ONLY <1>6, <1>7
  <2> QED BY ONLY <1>2, <1>5, <1>6, <2>1 DEF AllName
<1>10. \/ curr_tty' = curr_tty
       \/ b.code \in DOMAIN KEY_F /\ curr_tty' = KEY_F[b.code]
  BY ONLY handle_kbd, <1>1
  DEF handle_kbd, do_normal_key, do_e0_key, do_fx_key, tty_select
<1>11. DOMAIN KEY_F = FCodes
  BY DEF KEY_F, FCodes
<1>12. curr_tty' \in Ttys
  BY ONLY <1>3, <1>8, <1>10, <1>11 DEF Names
<1>13. opened' = opened
  BY ONLY handle_kbd
  DEF handle_kbd, do_normal_key, do_e0_key, tty_in, ttyVars
<1> QED BY <1>9, <1>12, <1>13

LEMMA BytesInvNext == BytesInv /\ [Next]_vars => BytesInv'
<1> SUFFICES ASSUME BytesInv, [Next]_vars PROVE BytesInv'
  OBVIOUS
<1>1. ASSUME NEW k \in Keys, KeyDown(k) \/ KeyUp(k) PROVE BytesInv'
  <2>1. curr_tty' = curr_tty
    BY ONLY <1>1 DEF KeyDown, KeyUp, driverVars
  <2>2. wire' = wire \o MakeBytes(k) \/ wire' = wire \o BreakBytes(k)
    BY ONLY <1>1 DEF KeyDown, KeyUp, Send
  <2> QED BY ONLY BytesInv, <1>1, <2>1, <2>2, NamesBytes DEF BytesInv
<1>2. CASE handle_kbd
  BY ONLY BytesInv, <1>2, InterruptSelects DEF BytesInv
<1>3. ASSUME UNCHANGED driverVars, UNCHANGED userVars PROVE BytesInv'
  BY ONLY BytesInv, <1>3 DEF BytesInv, driverVars, userVars
<1>4. ASSUME NEW i \in Ttys, tty_open(i) \/ tty_read(i) \/ tty_fifo_get(i) PROVE BytesInv'
  BY <1>3, <1>4 DEF tty_open, tty_read, tty_fifo_get
<1>5. CASE UNCHANGED vars
  BY <1>3, <1>5 DEF vars
<1> QED BY <1>1, <1>2, <1>4, <1>5 DEF Next

LEMMA ScreenStepKbd == [ScreenNext]_<<vars, consoleVars>> => [Next]_vars
<1> SUFFICES ASSUME [ScreenNext]_<<vars, consoleVars>> PROVE [Next]_vars
  OBVIOUS
<1>1. ASSUME NEW k \in Keys, Key(k) PROVE [Next]_vars
  BY ONLY <1>1 DEF Key, Next
<1>2. CASE Interrupt
  BY ONLY <1>2 DEF Interrupt, Next
<1>3. ASSUME NEW i \in Ttys, Open(i) \/ Read(i) PROVE [Next]_vars
  BY ONLY <1>3 DEF Open, Read, Next
<1>4. ASSUME NEW w \in Writers, Display(w) PROVE [Next]_vars
  <2>1. opened' = opened /\ curr_tty' = curr_tty
    BY ONLY <1>4 DEF Display, Write, UpdatePos, UpdateOut
  <2> QED BY ONLY SMTT(40), <1>4, <2>1 DEF Display, inputVars, vars, driverVars, ttyVars
<1>5. CASE UNCHANGED <<vars, consoleVars>>
  BY ONLY <1>5
<1> QED BY <1>1, <1>2, <1>3, <1>4, <1>5 DEF ScreenNext

LEMMA ScreenStepConsole ==
    BytesInv /\ [ScreenNext]_<<vars, consoleVars>> => [ConsoleNext]_displayVars
<1> SUFFICES ASSUME BytesInv, [ScreenNext]_<<vars, consoleVars>> PROVE [ConsoleNext]_displayVars
  OBVIOUS
<1>1. ASSUME UNCHANGED consoleVars, opened' = opened, curr_tty' = curr_tty
      PROVE  [ConsoleNext]_displayVars
  BY ONLY <1>1 DEF displayVars
<1>2. ASSUME NEW k \in Keys, Key(k) PROVE [ConsoleNext]_displayVars
  BY ONLY <1>1, <1>2 DEF Key, KeyDown, KeyUp, driverVars, ttyVars
<1>3. CASE Interrupt
  <2>1. curr_tty' \in Ttys /\ opened' = opened
    BY ONLY BytesInv, <1>3, InterruptSelects DEF Interrupt
  <2>2. CASE curr_tty' = curr_tty
    BY ONLY <1>1, <1>3, <2>1, <2>2 DEF Interrupt
  <2>3. CASE curr_tty' # curr_tty
    <3>1. PICK i : i = curr_tty'
      OBVIOUS
    <3>2. console_select(i)
      BY ONLY <1>3, <2>3, <3>1 DEF Interrupt
    <3>3. i \in Consoles
      BY <2>1, <3>1, Sizes
    <3> QED BY ONLY <3>2, <3>3 DEF ConsoleNext
  <2> QED BY <2>2, <2>3
<1>4. ASSUME NEW i \in Ttys, Open(i) PROVE [ConsoleNext]_displayVars
  <2>1. i \in Consoles
    BY Sizes
  <2> QED BY ONLY <1>4, <2>1 DEF Open, ConsoleNext
<1>5. ASSUME NEW i \in Ttys, Read(i) PROVE [ConsoleNext]_displayVars
  BY ONLY <1>1, <1>5 DEF Read, tty_read, tty_fifo_get, driverVars
<1>6. ASSUME NEW w \in Writers, Display(w) PROVE [ConsoleNext]_displayVars
  BY ONLY <1>6 DEF Display, ConsoleNext
<1>7. CASE UNCHANGED <<vars, consoleVars>>
  BY ONLY <1>1, <1>7 DEF vars, driverVars, ttyVars
<1> QED BY <1>2, <1>3, <1>4, <1>5, <1>6, <1>7 DEF ScreenNext

\* Put together, the keyboard driver and the consoles still behave each as it does on
\* its own: neither is shown a terminal that does not exist, and no step of one is
\* anything but a step or nothing for the other.
THEOREM ScreenImplements == ScreenSpec => Spec /\ ConsoleSpec
<1>1. ScreenInit => Init /\ ConsoleInit
  BY DEF ScreenInit
<1>2. ScreenSpec => Spec
  BY <1>1, ScreenStepKbd, PTL DEF ScreenSpec, Spec
<1>3. Spec => []BytesInv
  BY BytesInvInit, BytesInvNext, PTL DEF Spec
<1>4. ScreenSpec => ConsoleSpec
  BY <1>1, <1>2, <1>3, ScreenStepConsole, PTL DEF ScreenSpec, ConsoleSpec
<1> QED BY <1>2, <1>4, PTL

\* The screen that is shown is that of the terminal the user chose last, once the
\* bytes of the keys are handled, whatever the tasks are writing meanwhile.
THEOREM ChosenTerminalIsShown == ScreenSpec => []ChosenIsShown
<1>1. KeysUnderstood /\ CursorShown => ChosenIsShown
  BY DEF KeysUnderstood, CursorShown, ChosenIsShown
<1> QED BY <1>1, ScreenImplements, KeysAreUnderstood, CursorIsShown, PTL
=============================================================================

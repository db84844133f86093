---------------------------- MODULE Control_proof ----------------------------
(* What is between the user and the tunnel, for every value of the constants:  *)
(* the configuration protocol for any requests and any number of connections,  *)
(* the socket of the interface for any ports and marks, and the report of the  *)
(* process that was started.                                                   *)
EXTENDS Ipc, Socket, Daemon, FiniteSetTheorems, SequenceTheorems, WellFoundedInduction, TLAPS

-----------------------------------------------------------------------------
\* A set of natural numbers has a least one.
LEMMA Least ==
  ASSUME NEW T, T \subseteq Nat, T # {}
  PROVE  \E n \in T : \A m \in T : n <= m
<1> DEFINE R == {ss \in Nat \X Nat : ss[1] < ss[2]}
<1>1. IsWellFoundedOn(R, Nat)
  BY Zenon, NatLessThanWellFounded DEF OpToRel
<1>2. PICK n \in T : \A m \in T : ~(<<m, n>> \in R)
  <2> HIDE DEF R
  <2>1. QED
    BY Zenon, <1>1, WFMin
<1>3. ASSUME NEW m \in T PROVE n <= m
  <2>1. n \in Nat /\ m \in Nat /\ <<m, n>> \in Nat \X Nat
    OBVIOUS
  <2>2. ~(m < n)
    BY <1>2, <2>1
  <2>3. QED
    BY <2>1, <2>2
<1>4. QED
  BY <1>3

\* Induction over the natural numbers, for a set.
LEMMA Induct ==
  ASSUME NEW S, 0 \in S, \A n \in Nat : n \in S => n + 1 \in S
  PROVE  Nat \subseteq S
<1> SUFFICES ASSUME NEW x \in Nat \ S PROVE FALSE
  OBVIOUS
<1>1. PICK n \in Nat \ S : \A m \in Nat \ S : n <= m
  <2>1. Nat \ S \subseteq Nat /\ Nat \ S # {}
    OBVIOUS
  <2>2. QED
    BY <2>1, Least
<1>2. n # 0 /\ n - 1 \in Nat
  BY <1>1
<1>3. n - 1 \in S
  BY <1>1, <1>2
<1>4. n - 1 + 1 \in S
  BY <1>2, <1>3
<1>5. QED
  BY <1>1, <1>4

\* f is what a parser makes of the first m lines of r.
Follows(f, r, m) ==
  f = [n \in 0..m |-> IF n = 0 THEN Start ELSE ParseOn(f[n - 1], r[n])]

LEMMA FollowsOn ==
  ASSUME NEW r, NEW m \in Nat, NEW f, Follows(f, r, m)
  PROVE  \E g : Follows(g, r, m + 1)
<1> DEFINE g == [n \in 0..(m + 1) |-> IF n = m + 1 THEN ParseOn(f[m], r[m + 1]) ELSE f[n]]
<1>1. \A n \in 0..m : f[n] = IF n = 0 THEN Start ELSE ParseOn(f[n - 1], r[n])
  BY DEF Follows
<1>2. ASSUME NEW n \in 0..(m + 1)
      PROVE  g[n] = IF n = 0 THEN Start ELSE ParseOn(g[n - 1], r[n])
  <2>1. CASE n = m + 1
    <3>1. m \in 0..(m + 1) /\ g[m] = f[m] /\ n - 1 = m /\ n # 0
      BY <2>1
    <3>2. QED
      BY <2>1, <3>1
  <2>2. CASE n = 0
    BY <1>1, <2>2
  <2>3. CASE n # m + 1 /\ n # 0
    <3>1. n \in 0..m /\ n - 1 \in 0..m /\ n - 1 # m + 1 /\ n - 1 \in 0..(m + 1)
      BY <2>3
    <3>2. g[n - 1] = f[n - 1] /\ g[n] = f[n]
      BY <2>3, <3>1
    <3>3. QED
      BY <1>1, <2>3, <3>1, <3>2
  <2>4. QED
    BY <2>1, <2>2, <2>3
<1>3. Follows(g, r, m + 1)
  BY <1>2 DEF Follows
<1>4. QED
  BY <1>3

LEMMA FollowsAll ==
  ASSUME NEW r, NEW m \in Nat
  PROVE  \E f : Follows(f, r, m)
<1> DEFINE S == {n \in Nat : \E f : Follows(f, r, n)}
<1>1. 0 \in S
  <2>1. Follows([n \in 0..0 |-> Start], r, 0)
    BY DEF Follows
  <2>2. QED
    BY <2>1
<1>2. \A n \in Nat : n \in S => n + 1 \in S
  BY FollowsOn
<1>3. Nat \subseteq S
  <2> HIDE DEF S
  <2>1. QED
    BY <1>1, <1>2, Induct
<1>4. QED
  BY <1>3

LEMMA ParsesUnfolds ==
  ASSUME NEW r, Len(r) \in Nat
  PROVE  /\ Parses(r)[0] = Start
         /\ \A n \in 1..Len(r) : Parses(r)[n] = ParseOn(Parses(r)[n - 1], r[n])
<1>1. Follows(Parses(r), r, Len(r))
  <2>1. \E f : Follows(f, r, Len(r))
    BY FollowsAll
  <2>2. QED
    BY <2>1, Zenon DEF Parses, Follows
<1>2. QED
  BY <1>1 DEF Follows

-----------------------------------------------------------------------------
\* What a parser is made of.
Values == Nat \cup {Bad}
Keys == STRING \cup {"unkeyed"}
Lines == [key : Keys, value : Values]
Fields == SUBSET (Keys \X Values)
Peers == [public_key : Values, fields : Fields]
Parsers == [mode : Modes, top : Fields, peers : Seq(Peers)]

Sound(q) ==
  /\ q \in Parsers /\ IsFiniteSet(q.top)
  /\ q.mode = "peer" => q.peers # << >>
  /\ q.mode \notin {"none", "errno"}

LEMMA StartSound == Sound(Start)
BY FS_EmptySet DEF Sound, Start, Parsers, Fields, Modes

LEMMA PutSound ==
  ASSUME NEW fields \in Fields, NEW l \in Lines
  PROVE  /\ Put(fields, l) \in Fields
         /\ IsFiniteSet(fields) => IsFiniteSet(Put(fields, l))
<1>1. Put(fields, l) \in Fields
  BY DEF Put, Fields, Lines
<1>2. ASSUME IsFiniteSet(fields) PROVE IsFiniteSet(Put(fields, l))
  <2>1. Put(fields, l) \subseteq fields \cup {<<l.key, l.value>>}
    BY DEF Put
  <2>2. IsFiniteSet(fields \cup {<<l.key, l.value>>})
    BY <1>2, FS_AddElement
  <2>3. QED
    BY <2>1, <2>2, FS_Subset
<1>3. QED
  BY <1>1, <1>2

LEMMA InSound ==
  ASSUME NEW q, Sound(q), NEW mode \in Modes \ {"none", "errno", "peer"}
  PROVE  Sound(In(q, mode)) /\ In(q, mode).mode = mode
BY DEF Sound, In, Parsers

LEMMA NewPeerSound ==
  ASSUME NEW q, Sound(q), NEW l \in Lines
  PROVE  Sound(NewPeer(q, l)) /\ NewPeer(q, l).mode \in {"failed", "peer"}
<1>1. CASE l.value = Bad
  BY <1>1, InSound DEF NewPeer, Modes
<1>2. CASE l.value # Bad
  <2> DEFINE p == [public_key |-> l.value, fields |-> {}]
  <2>1. p \in Peers
    BY DEF Peers, Fields, Lines
  <2>2. Append(q.peers, p) \in Seq(Peers) /\ Append(q.peers, p) # << >>
    BY <2>1 DEF Sound, Parsers
  <2>3. NewPeer(q, l) = [mode |-> "peer", top |-> q.top, peers |-> Append(q.peers, p)]
    BY <1>2 DEF NewPeer, In, Sound, Parsers
  <2>4. QED
    BY <2>2, <2>3 DEF Sound, Parsers, Modes
<1>3. QED
  BY <1>1, <1>2

LEMMA TopLineSound ==
  ASSUME NEW q, Sound(q), NEW l \in Lines
  PROVE  Sound(TopLine(q, l)) /\ TopLine(q, l).mode \in {"failed", q.mode}
<1>1. CASE l.value = Bad
  BY <1>1, InSound DEF TopLine, Modes
<1>2. CASE l.value # Bad
  <2>1. Put(q.top, l) \in Fields /\ IsFiniteSet(Put(q.top, l))
    BY PutSound DEF Sound, Parsers
  <2>2. TopLine(q, l) = [mode |-> q.mode, top |-> Put(q.top, l), peers |-> q.peers]
    BY <1>2 DEF TopLine, Sound, Parsers
  <2>3. QED
    BY <2>1, <2>2 DEF Sound, Parsers
<1>3. QED
  BY <1>1, <1>2

LEMMA PeerLineSound ==
  ASSUME NEW q, Sound(q), NEW l \in Lines, q.peers # << >>
  PROVE  Sound(PeerLine(q, l)) /\ PeerLine(q, l).mode \in {"failed", q.mode}
<1>1. CASE l.value = Bad
  BY <1>1, InSound DEF PeerLine, Modes
<1>2. CASE l.value # Bad
  <2> DEFINE n == Len(q.peers)
             ps == [q.peers EXCEPT ![n].fields = Put(@, l)]
  <2>1. q.peers \in Seq(Peers) /\ n \in 1..n
    BY EmptySeq DEF Sound, Parsers
  <2>2. q.peers[n] \in Peers
    BY <2>1
  <2>3. Put(q.peers[n].fields, l) \in Fields
    BY <2>2, PutSound DEF Peers
  <2>4. [q.peers[n] EXCEPT !.fields = Put(@, l)] \in Peers
    BY <2>2, <2>3 DEF Peers
  <2>5. ps \in Seq(Peers) /\ ps # << >>
    BY <2>1, <2>4
  <2>6. PeerLine(q, l) = [mode |-> q.mode, top |-> q.top, peers |-> ps]
    BY <1>2 DEF PeerLine, Sound, Parsers
  <2>7. QED
    BY <2>5, <2>6 DEF Sound, Parsers
<1>3. QED
  BY <1>1, <1>2

\* A line leaves a parser sound, and only the empty one makes it done.
LEMMA SetLineSound ==
  ASSUME NEW q, Sound(q), ~Over(q), NEW l \in Lines
  PROVE  /\ Sound(SetLine(q, l))
         /\ SetLine(q, l).mode = "done" => l = Empty
<1>1. \A mode \in {"top", "get", "failed", "done"} : Sound(In(q, mode)) /\ In(q, mode).mode = mode
  BY InSound DEF Modes
<1>2. CASE q.mode = "first"
  <2>1. \E mode \in {"top", "get", "failed"} : SetLine(q, l) = In(q, mode)
    <3>1. CASE l.key = "set=1"
      BY <1>2, <3>1 DEF SetLine
    <3>2. CASE l.key = "get=1"
      BY <1>2, <3>2 DEF SetLine
    <3>3. CASE l.key \notin {"set=1", "get=1"}
      BY <1>2, <3>3 DEF SetLine
    <3>4. QED
      BY <3>1, <3>2, <3>3
  <2>2. QED
    BY <1>1, <2>1
<1>3. CASE q.mode = "get"
  BY <1>1, <1>3 DEF SetLine
<1>4. CASE q.mode \in {"top", "peer"} /\ l = Empty
  <2>1. l.key = NoKey
    BY <1>4 DEF Empty, Line
  <2>2. l.key # "public_key" /\ l.key \notin SetKeys /\ l.key \notin SetPeerKeys
    BY <2>1, Zenon DEF NoKey, SetKeys, SetPeerKeys
  <2>3. SetLine(q, l) = In(q, "done")
    BY <1>4, <2>2 DEF SetLine
  <2>4. QED
    BY <2>3, <1>1, <1>4
<1>5. CASE q.mode \in {"top", "peer"} /\ l # Empty /\ l.key = "public_key"
  <2>1. SetLine(q, l) = NewPeer(q, l)
    BY <1>5 DEF SetLine, SetKeys, SetPeerKeys
  <2>2. QED
    BY <2>1, NewPeerSound
<1>6. CASE q.mode = "top" /\ l # Empty /\ l.key # "public_key" /\ l.key \in SetKeys
  <2>1. SetLine(q, l) = TopLine(q, l)
    BY <1>6 DEF SetLine
  <2>2. QED
    BY <2>1, TopLineSound, <1>6
<1>7. CASE q.mode = "peer" /\ l # Empty /\ l.key # "public_key" /\ l.key \in SetPeerKeys
  <2>1. q.peers # << >>
    BY <1>7 DEF Sound
  <2>2. SetLine(q, l) = PeerLine(q, l)
    BY <1>7 DEF SetLine
  <2>3. QED
    BY <2>1, <2>2, PeerLineSound, <1>7
<1>8. CASE q.mode = "top" /\ l # Empty /\ l.key # "public_key" /\ l.key \notin SetKeys
  <2>1. SetLine(q, l) = In(q, "failed")
    BY <1>8 DEF SetLine
  <2>2. QED
    BY <2>1, <1>1
<1>9. CASE q.mode = "peer" /\ l # Empty /\ l.key # "public_key" /\ l.key \notin SetPeerKeys
  <2>1. SetLine(q, l) = In(q, "failed")
    BY <1>9 DEF SetLine
  <2>2. QED
    BY <2>1, <1>1
<1>10. q.mode \in {"first", "get", "top", "peer"}
  BY DEF Sound, Over, Parsers, Modes
<1>11. QED
  BY <1>2, <1>3, <1>4, <1>5, <1>6, <1>7, <1>8, <1>9, <1>10, Zenon

-----------------------------------------------------------------------------
\* What a parser makes of the lines of a request.
LEMMA ParsesSound ==
  ASSUME NEW r \in Seq(Lines)
  PROVE  \A n \in 0..Len(r) : Sound(Parses(r)[n])
<1> DEFINE T == {n \in Nat : n <= Len(r) => Sound(Parses(r)[n])}
<1>1. 0 \in T
  BY ParsesUnfolds, StartSound
<1>2. ASSUME NEW n \in Nat, n \in T PROVE n + 1 \in T
  <2> SUFFICES ASSUME n + 1 <= Len(r) PROVE Sound(Parses(r)[n + 1])
    OBVIOUS
  <2>1. n + 1 \in 1..Len(r) /\ n + 1 - 1 = n /\ n <= Len(r)
    OBVIOUS
  <2>2. Parses(r)[n + 1] = ParseOn(Parses(r)[n], r[n + 1])
    BY <2>1, ParsesUnfolds
  <2>3. Sound(Parses(r)[n]) /\ r[n + 1] \in Lines
    BY <1>2, <2>1
  <2>4. QED
    BY <2>2, <2>3, SetLineSound DEF ParseOn
<1>3. Nat \subseteq T
  <2> HIDE DEF T
  <2>1. QED
    BY <1>1, <1>2, Induct
<1>4. QED
  BY <1>3

\* A parser that is over has the command of the whole request.
LEMMA OverIsWhole ==
  ASSUME NEW r \in Seq(Lines), NEW k \in 0..Len(r), Over(Parses(r)[k])
  PROVE  Whole(r) = Parses(r)[k]
<1> DEFINE T == {n \in Nat : k + n <= Len(r) => Parses(r)[k + n] = Parses(r)[k]}
<1>1. 0 \in T
  OBVIOUS
<1>2. ASSUME NEW n \in Nat, n \in T PROVE n + 1 \in T
  <2> SUFFICES ASSUME k + (n + 1) <= Len(r) PROVE Parses(r)[k + (n + 1)] = Parses(r)[k]
    OBVIOUS
  <2>1. k + (n + 1) \in 1..Len(r) /\ k + (n + 1) - 1 = k + n /\ k + n <= Len(r)
    OBVIOUS
  <2>2. Parses(r)[k + (n + 1)] = ParseOn(Parses(r)[k + n], r[k + (n + 1)])
    BY <2>1, ParsesUnfolds
  <2>3. Parses(r)[k + n] = Parses(r)[k]
    BY <1>2, <2>1
  <2>4. QED
    BY <2>2, <2>3 DEF ParseOn
<1>3. Nat \subseteq T
  <2> HIDE DEF T
  <2>1. QED
    BY <1>1, <1>2, Induct
<1>4. Len(r) - k \in Nat /\ k + (Len(r) - k) = Len(r) /\ Len(r) <= Len(r)
  OBVIOUS
<1>5. Len(r) - k \in T
  <2> HIDE DEF T
  <2>1. QED
    BY <1>3, <1>4
<1>6. QED
  BY <1>4, <1>5 DEF Whole

-----------------------------------------------------------------------------
\* The settings of a command are a sequence.
LEMMA SetToSeqIsSeq ==
  ASSUME NEW fs, IsFiniteSet(fs)
  PROVE  SetToSeq(fs) \in Seq(fs)
<1>1. Cardinality(fs) \in Nat /\ ExistsBijection(1..Cardinality(fs), fs)
  BY FS_CardinalityType
<1>2. \E f \in [1..Cardinality(fs) -> fs] : IsInjective(f)
  BY <1>1, Zenon DEF ExistsBijection, Bijection, Injection
<1>3. SetToSeq(fs) \in [1..Cardinality(fs) -> fs]
  BY <1>2, Zenon DEF SetToSeq
<1>4. QED
  BY <1>1, <1>3

SettingOf(q, k) == SetToSeq({f \in q.top : f[1] = k /\ f # <<"replace_peers", 0>>})
SettingsOf(q) == q.top \cup {<<"peer", q.peers[i]>> : i \in DOMAIN q.peers}

LEMMA SettingsIsSeq ==
  ASSUME NEW q, Sound(q)
  PROVE  Settings(q) \in Seq(SettingsOf(q))
<1>1. ASSUME NEW k PROVE SettingOf(q, k) \in Seq(SettingsOf(q))
  <2> DEFINE fs == {f \in q.top : f[1] = k /\ f # <<"replace_peers", 0>>}
  <2>1. fs \subseteq q.top /\ IsFiniteSet(fs)
    BY FS_Subset DEF Sound
  <2>2. SetToSeq(fs) \in Seq(fs)
    BY <2>1, SetToSeqIsSeq
  <2>3. fs \subseteq SettingsOf(q)
    BY DEF SettingsOf
  <2> HIDE DEF fs
  <2>4. SetToSeq(fs) \in Seq(SettingsOf(q))
    BY <2>2, <2>3
  <2>5. QED
    BY <2>4 DEF SettingOf, fs
<1> DEFINE ps == [i \in DOMAIN q.peers |-> <<"peer", q.peers[i]>>]
<1>2. ps \in Seq(SettingsOf(q))
  BY DEF Sound, Parsers, SettingsOf
<1>3. Settings(q) = SettingOf(q, "private_key") \o SettingOf(q, "listen_port") \o SettingOf(q, "fwmark")
                      \o SettingOf(q, "replace_peers") \o ps
  BY Zenon DEF Settings, SettingOf
<1> HIDE DEF ps
<1>4. SettingOf(q, "private_key") \o SettingOf(q, "listen_port") \o SettingOf(q, "fwmark")
        \o SettingOf(q, "replace_peers") \in Seq(SettingsOf(q))
  BY <1>1
<1>5. QED
  BY <1>2, <1>3, <1>4

LEMMA PrefixOfConcat ==
  ASSUME NEW A, NEW s \in Seq(A), NEW t \in Seq(A)
  PROVE  /\ IsPrefix(s, s \o t)
         /\ t # << >> => s # s \o t
         /\ t = << >> => s = s \o t
<1>1. Len(s \o t) = Len(s) + Len(t) /\ Len(s) \in Nat /\ Len(t) \in Nat
  OBVIOUS
<1>2. SubSeq(s \o t, 1, Len(s)) = SubSeq(s, 1, Len(s))
  OBVIOUS
<1>3. t # << >> => Len(t) # 0
  BY EmptySeq
<1>4. t = << >> => s = s \o t
  OBVIOUS
<1>5. IsPrefix(s, s \o t)
  BY <1>1, <1>2 DEF IsPrefix
<1>6. ASSUME t # << >>, s = s \o t PROVE FALSE
  BY <1>1, <1>3, <1>6
<1>7. QED
  BY <1>4, <1>5, <1>6

-----------------------------------------------------------------------------
\* What is left of a line that is cut never ends a request.
LEMMA CutIsNotEmpty ==
  ASSUME NEW l \in Lines, l # Empty, NEW k \in Cut(l)
  PROVE  k \in Lines /\ k # Empty
<1>1. Bad \notin Nat
  BY IpcAssumption
<1>2. "unkeyed" # NoKey
  BY Zenon DEF NoKey
<1>3. k \in {Line("unkeyed", Bad), Line(l.key, Bad), l, Line(l.key, Shorter)}
  BY DEF Cut
<1>4. ASSUME NEW key \in Keys
      PROVE  /\ Line(key, Bad) \in Lines /\ Line(key, Bad) # Empty
             /\ Line(key, Shorter) \in Lines /\ Line(key, Shorter) # Empty
  BY <1>1 DEF Line, Empty, Lines, Values, Shorter
<1>5. "unkeyed" \in Keys /\ l.key \in Keys
  BY DEF Keys, Lines
<1>6. QED
  BY <1>3, <1>4, <1>5

LEMMA SeqOfMore ==
  ASSUME NEW A, NEW B, A \subseteq B, NEW r \in Seq(A)
  PROVE  r \in Seq(B)
<1>1. Len(r) \in Nat /\ r \in [1..Len(r) -> A]
  OBVIOUS
<1>2. r \in [1..Len(r) -> B]
  BY <1>1
<1>3. QED
  BY <1>1, <1>2

LEMMA RequestIsSeq ==
  ASSUME NEW r \in Requests
  PROVE  r \in Seq(Lines)
<1>1. r \in Seq([key : STRING, value : Nat \cup {Bad}])
  BY IpcAssumption
<1>2. [key : STRING, value : Nat \cup {Bad}] \subseteq Lines
  BY DEF Lines, Values, Keys
<1>3. QED
  BY <1>1, <1>2, SeqOfMore, Zenon

-----------------------------------------------------------------------------
OnConns(f) == f = [c \in Conns |-> f[c]]

Shape ==
  /\ OnConns(req) /\ OnConns(phase) /\ OnConns(unread) /\ OnConns(parser) /\ OnConns(todo)
  /\ OnConns(out) /\ OnConns(reader) /\ OnConns(result) /\ OnConns(log)

RequestInv(c) ==
  /\ phase[c] \in Phases
  /\ IF phase[c] = "idle" THEN parser[c] = Start ELSE req[c] \in Requests

\* The parser has read the first k lines of the request.
HasRead(c, k) ==
  /\ unread[c] = SubSeq(req[c], k + 1, Len(req[c]))
  /\ parser[c] = Parses(req[c])[k]

ReadInv(c) ==
  phase[c] = "reading" => ~Over(parser[c]) /\ \E k \in 0..Len(req[c]) : HasRead(c, k)

DoneInv(c) ==
  phase[c] \in {"parsed", "locking", "applying"} =>
    parser[c] = Whole(req[c]) /\ parser[c].mode = "done"

\* What was applied, and then what is to do, are the settings of the whole request.
TodoInv(c) ==
  /\ phase[c] = "locking" => todo[c] = Settings(Whole(req[c]))
  /\ phase[c] = "applying" =>
       LET A == SettingsOf(Whole(req[c])) IN
         /\ log[c] \in Seq(A) /\ todo[c] \in Seq(A)
         /\ log[c] \o todo[c] = Settings(Whole(req[c]))

LogInv(c) ==
  /\ phase[c] \in {"idle", "reading", "parsed", "locking"} => log[c] = << >>
  /\ log[c] # << >> =>
       Whole(req[c]).mode = "done" /\ IsPrefix(log[c], Settings(Whole(req[c])))

\* The answer with this errno is true.
TrueErrno(c, n) ==
  /\ n \in Nat
  /\ n = 0 => log[c] = Settings(Whole(req[c]))
  /\ n # 0 => log[c] = << >> \/ log[c] # Settings(Whole(req[c]))

ReadErrno(n) == [mode |-> "errno", top |-> {<<"errno", n>>}, peers |-> << >>]
Broken == [mode : {"failed"}, top : SUBSET ({"errno"} \X Nat), peers : {<< >>}]

\* How far the client has come with the answer to a set command.
AnswerInv(c) ==
  /\ phase[c] \in {"idle", "reading", "parsed", "locking", "applying"} =>
       reader[c] = Start /\ result[c] = None
  /\ phase[c] \in {"answering", "closed"} /\ req[c][1].key = "set=1" =>
       \/ phase[c] = "closed" /\ result[c] = None
       \/ \E n \in Nat : /\ TrueErrno(c, n)
                         /\ reader[c] = Start /\ result[c] = None /\ out[c] = Errno(n)
       \/ \E n \in Nat : TrueErrno(c, n) /\ reader[c] = ReadErrno(n) /\ result[c] = reader[c]
       \/ reader[c] \in Broken /\ result[c] = reader[c]

ConnInv(c) ==
  RequestInv(c) /\ ReadInv(c) /\ DoneInv(c) /\ TodoInv(c) /\ LogInv(c) /\ AnswerInv(c)

IpcInv == Shape /\ \A c \in Conns : ConnInv(c)

LEMMA IpcInit == Init => IpcInv
<1> SUFFICES ASSUME Init PROVE IpcInv
  OBVIOUS
<1>1. Shape
  BY DEF Init, Shape, OnConns
<1>2. ASSUME NEW c \in Conns PROVE ConnInv(c)
  BY DEF Init, ConnInv, RequestInv, ReadInv, DoneInv, TodoInv, LogInv, AnswerInv, Phases
<1>3. QED
  BY <1>1, <1>2 DEF IpcInv

\* A step leaves a connection as it is.
Untouched(c) ==
  /\ req'[c] = req[c] /\ phase'[c] = phase[c] /\ unread'[c] = unread[c]
  /\ parser'[c] = parser[c] /\ todo'[c] = todo[c] /\ out'[c] = out[c]
  /\ reader'[c] = reader[c] /\ result'[c] = result[c] /\ log'[c] = log[c]

LEMMA UntouchedHolds ==
  ASSUME NEW c, ConnInv(c), Untouched(c)
  PROVE  ConnInv(c)'
<1>1. RequestInv(c)'
  BY DEF ConnInv, Untouched, RequestInv
<1>2. ReadInv(c)'
  BY DEF ConnInv, Untouched, ReadInv, HasRead
<1>3. DoneInv(c)'
  BY DEF ConnInv, Untouched, DoneInv
<1>4. TodoInv(c)'
  BY DEF ConnInv, Untouched, TodoInv
<1>5. LogInv(c)'
  BY DEF ConnInv, Untouched, LogInv
<1>6. AnswerInv(c)'
  BY DEF ConnInv, Untouched, AnswerInv, TrueErrno
<1>7. QED
  BY <1>1, <1>2, <1>3, <1>4, <1>5, <1>6 DEF ConnInv

\* A step of one connection.
StepOf(c) ==
  \/ ReadLine(c) \/ HangUp(c) \/ Upgrade(c) \/ TakeLock(c) \/ Apply(c) \/ ApplyFails(c)
  \/ Applied(c) \/ ClientReads(c) \/ Close(c) \/ Breaks(c)
  \/ \E r \in Requests : Connect(c, r)

Elsewhere(c) == Shape' /\ \A d \in Conns \ {c} : Untouched(d)

LEMMA OtherConns ==
  ASSUME Shape, NEW c \in Conns, StepOf(c)
  PROVE  Elsewhere(c)
<1> USE DEF Shape, OnConns, Elsewhere, Untouched, GoTo, Parsed, Answer
<1>1. CASE ReadLine(c)
  BY <1>1 DEF ReadLine
<1>2. CASE HangUp(c)
  BY <1>2 DEF HangUp
<1>3. CASE Upgrade(c)
  BY <1>3 DEF Upgrade
<1>4. CASE TakeLock(c)
  BY <1>4 DEF TakeLock
<1>5. CASE Apply(c)
  BY <1>5 DEF Apply
<1>6. CASE ApplyFails(c)
  BY <1>6 DEF ApplyFails
<1>7. CASE Applied(c)
  BY <1>7 DEF Applied
<1>8. CASE ClientReads(c)
  BY <1>8 DEF ClientReads
<1>9. CASE Close(c)
  BY <1>9 DEF Close
<1>10. CASE Breaks(c)
  BY <1>10 DEF Breaks
<1>11. ASSUME NEW r \in Requests, Connect(c, r) PROVE Elsewhere(c)
  BY <1>11 DEF Connect
<1>12. QED
  BY <1>1, <1>2, <1>3, <1>4, <1>5, <1>6, <1>7, <1>8, <1>9, <1>10, <1>11 DEF StepOf

LEMMA ConnectHolds ==
  ASSUME Shape, NEW c \in Conns, ConnInv(c), NEW r \in Requests, Connect(c, r)
  PROVE  ConnInv(c)'
<1>1. /\ phase[c] = "idle" /\ phase'[c] = "reading" /\ req'[c] = r /\ unread'[c] = r
      /\ UNCHANGED <<parser, todo, out, reader, result, log>>
  BY DEF Connect, GoTo, Shape, OnConns
<1>2. log[c] = << >> /\ reader[c] = Start /\ result[c] = None /\ parser[c] = Start
  BY <1>1 DEF ConnInv, LogInv, AnswerInv, RequestInv
<1>3. r \in Seq(Lines)
  BY RequestIsSeq
<1>4. HasRead(c, 0)'
  <2>1. SubSeq(r, 1, Len(r)) = r
    BY <1>3
  <2>2. Parses(r)[0] = Start
    BY <1>3, ParsesUnfolds
  <2>3. QED
    BY <1>1, <1>2, <2>1, <2>2 DEF HasRead
<1>5. ReadInv(c)'
  <2>1. 0 \in 0..Len(r) /\ ~Over(Start)
    BY <1>3 DEF Over, Start
  <2>2. QED
    BY <1>1, <1>2, <1>4, <2>1 DEF ReadInv
<1>6. (RequestInv(c) /\ DoneInv(c) /\ TodoInv(c) /\ LogInv(c) /\ AnswerInv(c))'
  BY <1>1, <1>2 DEF RequestInv, DoneInv, TodoInv, LogInv, AnswerInv, Phases
<1>7. QED
  BY <1>5, <1>6 DEF ConnInv

\* What a line that is read, or a connection that ends, changes.
ReadInto(c, q) ==
  /\ phase[c] = "reading"
  /\ phase'[c] = CASE q.mode = "done" -> "parsed"
                   [] q.mode \in {"failed", "none"} -> "closed"
                   [] OTHER -> "reading"
  /\ parser'[c] = q
  /\ UNCHANGED <<req, todo, out, reader, result, log>>

LEMMA ReadLineHolds ==
  ASSUME Shape, NEW c \in Conns, ConnInv(c), ReadLine(c)
  PROVE  ConnInv(c)'
<1> DEFINE r == req[c]
           l == Head(unread[c])
           q == SetLine(parser[c], l)
<1>1. ReadInto(c, q) /\ unread[c] # << >> /\ unread'[c] = Tail(unread[c])
  BY DEF ReadLine, Parsed, GoTo, Shape, OnConns, ReadInto
<1>2. r \in Requests /\ r \in Seq(Lines)
  BY <1>1, RequestIsSeq DEF ReadInto, ConnInv, RequestInv
<1>3. PICK k \in 0..Len(r) : HasRead(c, k)
  BY <1>1 DEF ReadInto, ConnInv, ReadInv
<1>4. k + 1 \in 1..Len(r)
  <2>1. CASE k < Len(r)
    BY <2>1, <1>2
  <2>2. CASE k = Len(r)
    BY <2>2, <1>1, <1>2, <1>3 DEF HasRead
  <2>3. QED
    BY <1>2, <2>1, <2>2
<1>5. l = r[k + 1] /\ l \in Lines /\ Tail(unread[c]) = SubSeq(r, (k + 1) + 1, Len(r))
  <2>1. Len(r) \in 1..Len(r) /\ k + 1 <= Len(r)
    BY <1>2, <1>4
  <2>2. Head(SubSeq(r, k + 1, Len(r))) = r[k + 1]
    BY <1>2, <1>4, <2>1, HeadTailOfSubSeq
  <2>3. Tail(SubSeq(r, k + 1, Len(r))) = SubSeq(r, (k + 1) + 1, Len(r))
    BY <1>2, <1>4, <2>1, HeadTailOfSubSeq
  <2>4. unread[c] = SubSeq(r, k + 1, Len(r))
    BY <1>3 DEF HasRead
  <2>5. r[k + 1] \in Lines
    BY <1>2, <1>4
  <2>6. QED
    BY <2>2, <2>3, <2>4, <2>5, Zenon
<1>6. ~Over(parser[c]) /\ Sound(parser[c])
  BY <1>1, <1>2, <1>3, ParsesSound DEF ReadInto, ConnInv, ReadInv, HasRead
<1>7. Sound(q) /\ q.mode \notin {"none", "errno"}
  BY <1>5, <1>6, SetLineSound DEF Sound
<1>8. q = Parses(r)[k + 1]
  <2>1. (k + 1) - 1 = k
    BY <1>4
  <2>2. Parses(r)[k + 1] = ParseOn(Parses(r)[k], r[k + 1])
    BY <1>2, <1>4, <2>1, ParsesUnfolds
  <2>3. QED
    BY <1>3, <1>5, <1>6, <2>2 DEF ParseOn, HasRead
<1> HIDE DEF q, l
<1>9. log[c] = << >> /\ reader[c] = Start /\ result[c] = None
  BY <1>1 DEF ReadInto, ConnInv, LogInv, AnswerInv
<1>10. ReadInv(c)'
  <2> SUFFICES ASSUME phase'[c] = "reading" PROVE ~Over(q) /\ HasRead(c, k + 1)' /\ k + 1 \in 0..Len(r)
    BY <1>1 DEF ReadInv, ReadInto
  <2>1. ~Over(q)
    BY <1>1, <1>7 DEF ReadInto, Over
  <2>2. HasRead(c, k + 1)'
    BY <1>1, <1>5, <1>8 DEF HasRead, ReadInto
  <2>3. QED
    BY <2>1, <2>2, <1>4
<1>11. DoneInv(c)'
  <2> SUFFICES ASSUME phase'[c] \in {"parsed", "locking", "applying"}
               PROVE  q = Whole(r) /\ q.mode = "done"
    BY <1>1 DEF DoneInv, ReadInto
  <2>1. q.mode = "done"
    BY <1>1 DEF ReadInto
  <2>2. QED
    BY <2>1, <1>2, <1>4, <1>8, OverIsWhole DEF Over
<1>12. phase'[c] \in {"parsed", "closed", "reading"}
  BY <1>1 DEF ReadInto
<1>13. (RequestInv(c) /\ TodoInv(c) /\ LogInv(c) /\ AnswerInv(c))'
  BY <1>1, <1>2, <1>9, <1>12 DEF ReadInto, RequestInv, TodoInv, LogInv, AnswerInv, Phases
<1>14. QED
  BY <1>10, <1>11, <1>13 DEF ConnInv

\* Whatever is left of the line, the connection is closed and nothing was applied.
LEMMA HangUpHolds ==
  ASSUME Shape, NEW c \in Conns, ConnInv(c), HangUp(c)
  PROVE  ConnInv(c)'
<1>1. PICK q : ReadInto(c, q) /\ q.mode \in {"failed", "none"}
  <2>1. \A q : Parsed(c, q) /\ UNCHANGED <<req, todo, out, reader, result, log>>
                 /\ phase[c] = "reading" => ReadInto(c, q)
    BY DEF Parsed, GoTo, Shape, OnConns, ReadInto
  <2>2. phase[c] = "reading" /\ UNCHANGED <<req, todo, out, reader, result, log>>
    BY DEF HangUp
  <2>3. req[c] \in Seq(Lines) /\ Sound(parser[c]) /\ ~Over(parser[c])
    BY <2>2, RequestIsSeq, ParsesSound DEF ConnInv, RequestInv, ReadInv, HasRead
  <2>4. \A q : Sound(q) => AtEof(q).mode \in {"failed", "none"}
    BY DEF AtEof, In, Sound, Parsers
  <2>5. CASE Parsed(c, AtEof(parser[c]))
    BY <2>1, <2>2, <2>3, <2>4, <2>5
  <2>6. CASE /\ unread[c] # << >> /\ Head(unread[c]) # Empty
             /\ \E l \in Cut(Head(unread[c])) :
                  LET q == SetLine(parser[c], l) IN Parsed(c, IF Over(q) THEN q ELSE AtEof(q))
    <3> DEFINE h == Head(unread[c])
    <3>1. PICK l \in Cut(h) :
            LET q == SetLine(parser[c], l) IN Parsed(c, IF Over(q) THEN q ELSE AtEof(q))
      BY <2>6
    <3>2. h \in Lines
      <4>1. PICK k \in 0..Len(req[c]) : unread[c] = SubSeq(req[c], k + 1, Len(req[c]))
        BY <2>2 DEF ConnInv, ReadInv, HasRead
      <4>2. unread[c] \in Seq(Lines)
        BY <4>1, <2>3
      <4>3. QED
        BY <4>2, <2>6, EmptySeq
    <3> DEFINE q == SetLine(parser[c], l)
    <3>3. Sound(q) /\ q.mode # "done"
      BY <2>3, <2>6, <3>2, CutIsNotEmpty, SetLineSound
    <3> HIDE DEF q
    <3>4. CASE Over(q)
      <4>1. q.mode = "failed"
        BY <3>3, <3>4 DEF Over, Sound
      <4>2. Parsed(c, q)
        BY <3>1, <3>4 DEF q
      <4>3. QED
        BY <2>1, <2>2, <4>1, <4>2
    <3>5. CASE ~Over(q)
      <4>1. Parsed(c, AtEof(q))
        BY <3>1, <3>5 DEF q
      <4>2. QED
        BY <2>1, <2>2, <2>4, <3>3, <4>1
    <3>6. QED
      BY <3>4, <3>5
  <2>7. QED
    BY <2>5, <2>6 DEF HangUp
<1>2. phase'[c] = "closed" /\ UNCHANGED <<req, todo, out, reader, result, log>>
  BY <1>1 DEF ReadInto
<1>3. log[c] = << >> /\ reader[c] = Start /\ result[c] = None /\ req[c] \in Requests
  BY <1>1 DEF ReadInto, ConnInv, LogInv, AnswerInv, RequestInv
<1>4. QED
  BY <1>2, <1>3
  DEF ConnInv, RequestInv, ReadInv, DoneInv, TodoInv, LogInv, AnswerInv, Phases

\* The answers that are given are true.
LEMMA AnswerHolds ==
  ASSUME Shape, NEW c \in Conns, ConnInv(c), NEW n \in Nat,
         phase[c] \in {"parsed", "locking", "applying"}, Answer(c, Errno(n)),
         TrueErrno(c, n), UNCHANGED <<req, reader, result, log>>
  PROVE  ConnInv(c)'
<1>1. phase'[c] = "answering" /\ out'[c] = Errno(n)
  BY DEF Answer, GoTo, Shape, OnConns
<1>2. reader[c] = Start /\ result[c] = None /\ req[c] \in Requests
  BY DEF ConnInv, AnswerInv, RequestInv
<1>3. AnswerInv(c)'
  <2>1. TrueErrno(c, n)'
    BY DEF TrueErrno
  <2>2. QED
    BY <1>1, <1>2, <2>1 DEF AnswerInv
<1>4. LogInv(c)'
  BY <1>1 DEF ConnInv, LogInv
<1>5. QED
  BY <1>1, <1>2, <1>3, <1>4 DEF ConnInv, RequestInv, ReadInv, DoneInv, TodoInv, Phases

LEMMA UpgradeHolds ==
  ASSUME Shape, NEW c \in Conns, ConnInv(c), Upgrade(c)
  PROVE  ConnInv(c)'
<1>1. /\ phase[c] = "parsed" /\ log[c] = << >> /\ reader[c] = Start /\ result[c] = None
      /\ UNCHANGED <<req, parser, reader, result, log>>
  BY DEF Upgrade, ConnInv, LogInv, AnswerInv
<1>2. CASE Answer(c, Errno(6))
  <2>1. TrueErrno(c, 6)
    BY <1>1 DEF TrueErrno
  <2>2. QED
    BY <1>1, <1>2, <2>1, AnswerHolds
<1>3. CASE req[c][1].key = "get=1" /\ \E s \in States : Answer(c, Written(s))
  <2>1. phase'[c] = "answering" /\ req[c][1].key # "set=1" /\ req[c] \in Requests
    BY <1>1, <1>3 DEF Answer, GoTo, Shape, OnConns, ConnInv, RequestInv
  <2>2. QED
    BY <1>1, <2>1
    DEF ConnInv, RequestInv, ReadInv, DoneInv, TodoInv, LogInv, AnswerInv, Phases
<1>4. CASE todo' = [todo EXCEPT ![c] = Settings(parser[c])] /\ GoTo(c, "locking")
  <2>1. phase'[c] = "locking" /\ todo'[c] = Settings(parser[c])
    BY <1>4 DEF GoTo, Shape, OnConns
  <2>2. parser[c] = Whole(req[c]) /\ parser[c].mode = "done" /\ req[c] \in Requests
    BY <1>1 DEF ConnInv, DoneInv, RequestInv
  <2>3. QED
    BY <1>1, <2>1, <2>2
    DEF ConnInv, RequestInv, ReadInv, DoneInv, TodoInv, LogInv, AnswerInv, Phases
<1>5. QED
  BY <1>2, <1>3, <1>4 DEF Upgrade

LEMMA WholeSound ==
  ASSUME NEW r \in Requests
  PROVE  Sound(Whole(r))
<1>1. r \in Seq(Lines) /\ Len(r) \in 0..Len(r)
  BY RequestIsSeq
<1>2. QED
  BY <1>1, ParsesSound DEF Whole

LEMMA TakeLockHolds ==
  ASSUME Shape, NEW c \in Conns, ConnInv(c), TakeLock(c)
  PROVE  ConnInv(c)'
<1>1. /\ phase[c] = "locking" /\ phase'[c] = "applying"
      /\ UNCHANGED <<req, parser, todo, out, reader, result, log>>
  BY DEF TakeLock, GoTo, Shape, OnConns
<1>2. log[c] = << >> /\ req[c] \in Requests /\ todo[c] = Settings(Whole(req[c]))
  BY <1>1 DEF ConnInv, LogInv, RequestInv, TodoInv
<1>3. TodoInv(c)'
  <2> DEFINE A == SettingsOf(Whole(req[c]))
  <2>1. todo[c] \in Seq(A)
    BY <1>2, WholeSound, SettingsIsSeq
  <2> HIDE DEF A
  <2>2. << >> \in Seq(A) /\ << >> \o todo[c] = todo[c]
    BY <2>1
  <2>3. QED
    BY <1>1, <1>2, <2>1, <2>2 DEF TodoInv, A
<1>4. QED
  BY <1>1, <1>2, <1>3 DEF ConnInv, RequestInv, ReadInv, DoneInv, LogInv, AnswerInv, Phases

LEMMA MoveHead ==
  ASSUME NEW A, NEW s \in Seq(A), NEW t \in Seq(A), t # << >>
  PROVE  /\ Append(s, Head(t)) \in Seq(A) /\ Tail(t) \in Seq(A)
         /\ Append(s, Head(t)) \o Tail(t) = s \o t
<1>1. Len(t) \in Nat \ {0} /\ Head(t) \in A /\ Tail(t) \in Seq(A)
  BY EmptySeq
<1>2. Append(s, Head(t)) \in Seq(A)
  BY <1>1
<1>3. Append(s, Head(t)) \o Tail(t) = s \o t
  BY <1>1
<1>4. QED
  BY <1>1, <1>2, <1>3

LEMMA ApplyHolds ==
  ASSUME Shape, NEW c \in Conns, ConnInv(c), Apply(c)
  PROVE  ConnInv(c)'
<1> DEFINE A == SettingsOf(Whole(req[c]))
<1>1. /\ phase[c] = "applying" /\ todo[c] # << >>
      /\ log'[c] = Append(log[c], Head(todo[c])) /\ todo'[c] = Tail(todo[c])
      /\ UNCHANGED <<req, phase, unread, parser, out, reader, result>>
  BY DEF Apply, Shape, OnConns
<1>2. /\ log[c] \in Seq(A) /\ todo[c] \in Seq(A)
      /\ log[c] \o todo[c] = Settings(Whole(req[c]))
      /\ Whole(req[c]).mode = "done"
  BY <1>1 DEF ConnInv, TodoInv, DoneInv
<1> HIDE DEF A
<1>3. /\ log'[c] \in Seq(A) /\ todo'[c] \in Seq(A)
      /\ log'[c] \o todo'[c] = Settings(Whole(req[c]))
  <2>1. /\ Append(log[c], Head(todo[c])) \in Seq(A) /\ Tail(todo[c]) \in Seq(A)
        /\ Append(log[c], Head(todo[c])) \o Tail(todo[c]) = log[c] \o todo[c]
    <3>1. todo[c] # << >> /\ log[c] \in Seq(A) /\ todo[c] \in Seq(A)
      BY <1>1, <1>2
    <3>2. QED
      BY <3>1, MoveHead, Zenon
  <2>2. QED
    BY <1>1, <1>2, <2>1, Zenon
<1>4. IsPrefix(log'[c], Settings(Whole(req[c])))
  BY <1>3, PrefixOfConcat
<1>5. TodoInv(c)'
  BY <1>1, <1>3 DEF TodoInv, A
<1>6. LogInv(c)'
  BY <1>1, <1>2, <1>4 DEF LogInv
<1>7. (RequestInv(c) /\ ReadInv(c) /\ DoneInv(c) /\ AnswerInv(c))'
  BY <1>1 DEF ConnInv, RequestInv, ReadInv, DoneInv, AnswerInv
<1>8. QED
  BY <1>5, <1>6, <1>7 DEF ConnInv

LEMMA ApplyEndsHolds ==
  ASSUME Shape, NEW c \in Conns, ConnInv(c), ApplyFails(c) \/ Applied(c)
  PROVE  ConnInv(c)'
<1> DEFINE A == SettingsOf(Whole(req[c]))
<1>1. phase[c] = "applying" /\ UNCHANGED <<req, reader, result, log>>
  BY DEF ApplyFails, Applied
<1>2. /\ log[c] \in Seq(A) /\ todo[c] \in Seq(A)
      /\ log[c] \o todo[c] = Settings(Whole(req[c]))
  BY <1>1 DEF ConnInv, TodoInv
<1> HIDE DEF A
<1>3. CASE ApplyFails(c)
  <2>1. Answer(c, Errno(98)) /\ todo[c] # << >>
    BY <1>3 DEF ApplyFails, FailedErrno
  <2>2. log[c] # Settings(Whole(req[c]))
    <3>1. log[c] # log[c] \o todo[c]
      BY <1>2, <2>1, PrefixOfConcat, Zenon
    <3>2. QED
      BY <1>2, <3>1
  <2>3. TrueErrno(c, 98)
    BY <2>2 DEF TrueErrno
  <2>4. QED
    BY <1>1, <2>1, <2>3, AnswerHolds
<1>4. CASE Applied(c)
  <2>1. Answer(c, Errno(0)) /\ todo[c] = << >>
    BY <1>4 DEF Applied
  <2>2. TrueErrno(c, 0)
    BY <1>2, <2>1, PrefixOfConcat DEF TrueErrno
  <2>3. QED
    BY <1>1, <2>1, <2>2, AnswerHolds
<1>5. QED
  BY <1>3, <1>4

-----------------------------------------------------------------------------
\* What the client makes of the answer to a set command.
LEMMA KeysDiffer ==
  /\ NoKey \notin {"errno", "public_key", "protocol_version", "unkeyed"}
  /\ NoKey \notin StateKeys /\ NoKey \notin StatePeerKeys
BY Zenon DEF NoKey, StateKeys, StatePeerKeys

LEMMA ReadsErrno ==
  ASSUME NEW n \in Nat
  PROVE  StateLine(Start, Line("errno", n)) = ReadErrno(n)
<1>1. n # Bad
  BY IpcAssumption
<1>2. QED
  BY <1>1, KeysDiffer DEF StateLine, Line, In, Start, ReadErrno, StateKeys

LEMMA ReadsBroken ==
  ASSUME NEW l, l = Line("errno", Bad) \/ l = Line("unkeyed", Bad)
  PROVE  StateLine(Start, l) \in Broken /\ Over(StateLine(Start, l))
<1>1. StateLine(Start, l) = In(Start, "failed")
  BY KeysDiffer DEF StateLine, Line, Start, StateKeys
<1>2. QED
  BY <1>1 DEF In, Start, Broken, Over

LEMMA ReadsOn ==
  ASSUME NEW q, NEW l, q \in Broken \/ \E n \in Nat : q = ReadErrno(n)
  PROVE  StateLine(q, l) \in Broken /\ Over(q) /\ Over(StateLine(q, l))
<1>1. q.mode \in {"failed", "errno"}
  BY DEF Broken, ReadErrno
<1>2. StateLine(q, l) = In(q, "failed")
  BY <1>1 DEF StateLine
<1>3. In(q, "failed") \in Broken
  BY DEF In, Broken, ReadErrno
<1>4. QED
  BY <1>1, <1>2, <1>3 DEF Over, Broken

\* The step of a client, from one of the stages of an answer to another one.
Reads(c, q) ==
  /\ phase[c] = "answering" /\ result[c] = None
  /\ reader'[c] = q /\ result'[c] = q /\ UNCHANGED <<req, phase, log>>


LEMMA ClientReadsHolds ==
  ASSUME Shape, NEW c \in Conns, ConnInv(c), ClientReads(c)
  PROVE  ConnInv(c)'
<1> DEFINE l == Head(out[c])
           q == StateLine(reader[c], l)
<1>1. /\ phase[c] = "answering" /\ result[c] = None
      /\ reader'[c] = q /\ result'[c] = (IF Over(q) THEN q ELSE result[c])
      /\ UNCHANGED <<req, phase, unread, parser, todo, log>>
  BY DEF ClientReads, Shape, OnConns
<1> HIDE DEF q, l
<1>2. AnswerInv(c)'
  <2> SUFFICES ASSUME req[c][1].key = "set=1"
               PROVE  \/ \E n \in Nat : TrueErrno(c, n) /\ q = ReadErrno(n) /\ Over(q)
                      \/ q \in Broken /\ Over(q)
    BY <1>1 DEF AnswerInv, TrueErrno
  <2>1. \/ \E n \in Nat : TrueErrno(c, n) /\ reader[c] = Start /\ out[c] = Errno(n)
        \/ reader[c] \in Broken \/ \E n \in Nat : reader[c] = ReadErrno(n)
    BY <1>1 DEF ConnInv, AnswerInv
  <2>2. ASSUME NEW n \in Nat, TrueErrno(c, n), reader[c] = Start, out[c] = Errno(n)
        PROVE  TrueErrno(c, n) /\ q = ReadErrno(n) /\ Over(q)
    <3>1. l = Line("errno", n)
      BY <2>2 DEF l, Errno
    <3>2. q = ReadErrno(n)
      BY <2>2, <3>1, ReadsErrno DEF q
    <3>3. QED
      BY <2>2, <3>2 DEF Over, ReadErrno
  <2>3. CASE reader[c] \in Broken \/ \E n \in Nat : reader[c] = ReadErrno(n)
    BY <2>3, ReadsOn DEF q
  <2>4. QED
    BY <2>1, <2>2, <2>3
<1>3. (RequestInv(c) /\ ReadInv(c) /\ DoneInv(c) /\ TodoInv(c) /\ LogInv(c))'
  BY <1>1 DEF ConnInv, RequestInv, ReadInv, DoneInv, TodoInv, LogInv
<1>4. QED
  BY <1>2, <1>3 DEF ConnInv

LEMMA CloseHolds ==
  ASSUME Shape, NEW c \in Conns, ConnInv(c), Close(c)
  PROVE  ConnInv(c)'
<1>1. /\ phase[c] = "answering" /\ phase'[c] = "closed" /\ result[c] # None
      /\ UNCHANGED <<req, unread, parser, todo, out, reader, result, log>>
  BY DEF Close, GoTo, Shape, OnConns
<1>2. AnswerInv(c)'
  BY <1>1 DEF ConnInv, AnswerInv, TrueErrno
<1>3. (RequestInv(c) /\ ReadInv(c) /\ DoneInv(c) /\ TodoInv(c) /\ LogInv(c))'
  BY <1>1 DEF ConnInv, RequestInv, ReadInv, DoneInv, TodoInv, LogInv, Phases
<1>4. QED
  BY <1>2, <1>3 DEF ConnInv

\* A shorter errno is still an errno that is not 0.
LEMMA BreaksHolds ==
  ASSUME Shape, NEW c \in Conns, ConnInv(c), Breaks(c)
  PROVE  ConnInv(c)'
<1> DEFINE Ending(l) ==
      LET q == IF l = None THEN reader[c] ELSE StateLine(reader[c], l)
      IN IF Over(q) THEN q ELSE In(q, "failed")
<1>1. PICK l \in {None} \cup (IF out[c] = << >> THEN {} ELSE Cut(Head(out[c]))) :
        /\ phase[c] = "answering" /\ result[c] = None
        /\ reader'[c] = Ending(l) /\ result'[c] = Ending(l)
        /\ UNCHANGED <<req, phase, unread, parser, todo, log>>
  BY DEF Breaks, Shape, OnConns
<1>2. AnswerInv(c)'
  <2> SUFFICES ASSUME req[c][1].key = "set=1"
               PROVE  \/ \E n \in Nat : TrueErrno(c, n) /\ Ending(l) = ReadErrno(n)
                      \/ Ending(l) \in Broken
    <3> HIDE DEF Ending
    <3>1. QED
      BY <1>1 DEF AnswerInv, TrueErrno
  <2>1. \/ \E n \in Nat : TrueErrno(c, n) /\ reader[c] = Start /\ out[c] = Errno(n)
        \/ reader[c] \in Broken
        \/ \E n \in Nat : TrueErrno(c, n) /\ reader[c] = ReadErrno(n)
    BY <1>1 DEF ConnInv, AnswerInv
  <2>2. ASSUME NEW n \in Nat, TrueErrno(c, n), reader[c] = Start, out[c] = Errno(n)
        PROVE  \/ \E m \in Nat : TrueErrno(c, m) /\ Ending(l) = ReadErrno(m)
               \/ Ending(l) \in Broken
    <3>1. CASE l = None
      BY <2>2, <3>1 DEF Over, Start, In, Broken
    <3>2. CASE l # None
      <4>1. l \in Cut(Line("errno", n))
        BY <1>1, <2>2, <3>2 DEF Errno
      <4>2. \/ l \in {Line("unkeyed", Bad), Line("errno", Bad), Line("errno", n)}
            \/ n # 0 /\ l = Line("errno", Shorter)
        BY <4>1 DEF Cut, Line
      <4>3. CASE l = Line("unkeyed", Bad) \/ l = Line("errno", Bad)
        BY <2>2, <3>2, <4>3, ReadsBroken
      <4>4. ASSUME NEW m \in Nat, l = Line("errno", m), m = n \/ (n # 0 /\ m # 0)
            PROVE  TrueErrno(c, m) /\ Ending(l) = ReadErrno(m)
        <5>1. StateLine(Start, l) = ReadErrno(m) /\ Over(ReadErrno(m))
          BY <4>4, ReadsErrno DEF Over, ReadErrno
        <5>2. Ending(l) = ReadErrno(m)
          BY <2>2, <3>2, <5>1
        <5>3. TrueErrno(c, m)
          BY <2>2, <4>4 DEF TrueErrno
        <5>4. QED
          BY <5>2, <5>3
      <4>5. Shorter \in Nat /\ Shorter # 0
        BY DEF Shorter
      <4> HIDE DEF Ending
      <4>6. QED
        BY <4>2, <4>3, <4>4, <4>5
    <3>3. QED
      BY <3>1, <3>2
  <2>3. ASSUME reader[c] \in Broken \/ \E n \in Nat : reader[c] = ReadErrno(n)
        PROVE  Ending(l) \in Broken \/ Ending(l) = reader[c]
    <3>1. /\ StateLine(reader[c], l) \in Broken
          /\ Over(reader[c]) /\ Over(StateLine(reader[c], l))
      BY <2>3, ReadsOn, Zenon
    <3>2. QED
      BY <3>1
  <2> HIDE DEF Ending
  <2>4. QED
    BY <2>1, <2>2, <2>3
<1>3. (RequestInv(c) /\ ReadInv(c) /\ DoneInv(c) /\ TodoInv(c) /\ LogInv(c))'
  BY <1>1 DEF ConnInv, RequestInv, ReadInv, DoneInv, TodoInv, LogInv
<1>4. QED
  BY <1>2, <1>3 DEF ConnInv

-----------------------------------------------------------------------------
LEMMA IpcNext == IpcInv /\ [Next]_vars => IpcInv'
<1> SUFFICES ASSUME IpcInv, [Next]_vars PROVE IpcInv'
  OBVIOUS
<1>1. ASSUME NEW c \in Conns, StepOf(c) PROVE IpcInv'
  <2>1. Elsewhere(c)
    BY <1>1, OtherConns DEF IpcInv
  <2>2. Shape /\ ConnInv(c)
    BY DEF IpcInv
  <2>3. ConnInv(c)'
    BY <1>1, <2>2, ConnectHolds, ReadLineHolds, HangUpHolds, UpgradeHolds, TakeLockHolds,
       ApplyHolds, ApplyEndsHolds, ClientReadsHolds, CloseHolds, BreaksHolds, Zenon DEF StepOf
  <2>4. ASSUME NEW d \in Conns \ {c} PROVE ConnInv(d)'
    BY <2>1, UntouchedHolds DEF IpcInv, Elsewhere
  <2>5. QED
    BY <2>1, <2>3, <2>4 DEF IpcInv, Elsewhere
<1>2. CASE Dropped \/ UNCHANGED vars
  <2>1. UNCHANGED <<req, phase, unread, parser, todo, out, reader, result, log>>
    BY <1>2 DEF Dropped, vars
  <2>2. Shape'
    BY <2>1 DEF IpcInv, Shape, OnConns
  <2>3. ASSUME NEW d \in Conns PROVE ConnInv(d)'
    BY <2>1, UntouchedHolds DEF IpcInv, Untouched
  <2>4. QED
    BY <2>2, <2>3 DEF IpcInv
<1>3. QED
  BY <1>1, <1>2, Zenon DEF Next, Serve, StepOf

\* However a connection is cut, only settings of whole and valid requests are applied,
\* in their order and from the first one on (LinesCodec, parse_set_command,
\* process_wg_set).
THEOREM OnlyWholeRequests == Spec => []WholeRequestsOnly
<1>1. IpcInv => WholeRequestsOnly
  BY DEF IpcInv, ConnInv, LogInv, WholeRequestsOnly
<1>2. QED
  BY <1>1, IpcInit, IpcNext, PTL DEF Spec

\* A set command is reported as applied if, and only if, all of its settings were, for
\* any number of connections that break anywhere (process_wg_set, write_error,
\* parse_get_response).
THEOREM AnswersAreTrue == Spec => []AnswerTrue
<1>1. IpcInv => AnswerTrue
  <2> SUFFICES ASSUME IpcInv, NEW c \in Conns, result[c] # None,
                      result[c].mode # "failed", req[c][1].key = "set=1"
               PROVE  IF result[c].top = {<<"errno", 0>>}
                      THEN log[c] = Settings(Whole(req[c]))
                      ELSE log[c] = << >> \/ log[c] # Settings(Whole(req[c]))
    BY DEF AnswerTrue
  <2>1. phase[c] \in {"answering", "closed"}
    BY DEF IpcInv, ConnInv, AnswerInv, RequestInv, Phases
  <2>2. PICK n \in Nat : TrueErrno(c, n) /\ result[c] = ReadErrno(n)
    BY <2>1 DEF IpcInv, ConnInv, AnswerInv, Broken
  <2>3. result[c].top = {<<"errno", 0>>} <=> n = 0
    <3>1. result[c].top = {<<"errno", n>>}
      BY <2>2 DEF ReadErrno
    <3>2. <<"errno", n>> \in {<<"errno", 0>>} => n = 0
      OBVIOUS
    <3>3. QED
      BY <3>1, <3>2
  <2>4. QED
    BY <2>2, <2>3 DEF TrueErrno
<1>2. QED
  BY <1>1, IpcInit, IpcNext, PTL DEF Spec

-----------------------------------------------------------------------------
(* What the client makes of the answer to a get command.                       *)

PlainKeys == StateKeys \cup StatePeerKeys
ToldLine == [key : PlainKeys \cup {"public_key"}, value : Nat]
ToldFields == SUBSET (PlainKeys \X Nat)
ToldPeers == [public_key : Nat, fields : ToldFields]

\* The parser of a client that is not done.
Listening == [mode : {"first", "top", "peer"}, top : ToldFields, peers : Seq(ToldPeers)]

\* A line on which the client goes on, and no piece of which it takes for the end.
Good(q, l, next) ==
  /\ ~Over(q) /\ ~Over(next) /\ next = StateLine(q, l)
  /\ \A k \in Cut(l) : StateLine(q, k).mode # "done"

\* The client goes from the parser q to the parser r on these lines.
LeadsBy(f, q, ls, r) ==
  /\ f[0] = q /\ f[Len(ls)] = r
  /\ \A n \in 1..Len(ls) : Good(f[n - 1], ls[n], f[n])

Leads(q, ls, r) == ls \in Seq(ToldLine) /\ \E f : LeadsBy(f, q, ls, r)

LEMMA LeadsNone ==
  ASSUME NEW q
  PROVE  Leads(q, << >>, q)
<1>1. LeadsBy([n \in {0} |-> q], q, << >>, q)
  BY DEF LeadsBy
<1>2. << >> \in Seq(ToldLine)
  OBVIOUS
<1>3. QED
  BY <1>1, <1>2, Zenon DEF Leads

LEMMA LeadsConcat ==
  ASSUME NEW q, NEW r, NEW t, NEW a, NEW b, Leads(q, a, r), Leads(r, b, t)
  PROVE  Leads(q, a \o b, t)
<1>1. PICK f : LeadsBy(f, q, a, r)
  BY DEF Leads
<1>2. PICK g : LeadsBy(g, r, b, t)
  BY DEF Leads
<1>3. /\ a \in Seq(ToldLine) /\ b \in Seq(ToldLine) /\ a \o b \in Seq(ToldLine)
      /\ Len(a) \in Nat /\ Len(b) \in Nat /\ Len(a \o b) = Len(a) + Len(b)
  BY DEF Leads
<1> DEFINE h == [n \in 0..Len(a) + Len(b) |-> IF n <= Len(a) THEN f[n] ELSE g[n - Len(a)]]
<1>4. h[0] = q
  BY <1>1, <1>3 DEF LeadsBy
<1>5. h[Len(a) + Len(b)] = t
  <2>1. CASE Len(b) = 0
    BY <1>1, <1>2, <1>3, <2>1 DEF LeadsBy
  <2>2. CASE Len(b) # 0
    BY <1>2, <1>3, <2>2 DEF LeadsBy
  <2>3. QED
    BY <2>1, <2>2
<1>6. ASSUME NEW n \in 1..Len(a \o b) PROVE Good(h[n - 1], (a \o b)[n], h[n])
  <2>1. CASE n <= Len(a)
    <3>1. n \in 1..Len(a) /\ h[n - 1] = f[n - 1] /\ h[n] = f[n] /\ (a \o b)[n] = a[n]
      BY <1>3, <2>1
    <3>2. QED
      BY <1>1, <3>1 DEF LeadsBy
  <2>2. CASE n > Len(a)
    <3>1. /\ n - Len(a) \in 1..Len(b) /\ h[n] = g[n - Len(a)]
          /\ (a \o b)[n] = b[n - Len(a)]
      BY <1>3, <2>2
    <3>2. h[n - 1] = g[n - Len(a) - 1]
      <4>1. CASE n - 1 = Len(a)
        BY <1>1, <1>2, <1>3, <4>1 DEF LeadsBy
      <4>2. CASE n - 1 # Len(a)
        BY <1>3, <2>2, <4>2
      <4>3. QED
        BY <4>1, <4>2
    <3>3. QED
      BY <1>2, <3>1, <3>2 DEF LeadsBy
  <2>3. QED
    BY <1>3, <2>1, <2>2
<1>7. LeadsBy(h, q, a \o b, t)
  <2> HIDE DEF h
  <2>1. QED
    BY <1>3, <1>4, <1>5, <1>6 DEF LeadsBy
<1>8. QED
  BY <1>3, <1>7 DEF Leads

LEMMA LeadsOne ==
  ASSUME NEW q, NEW l \in ToldLine, NEW r, Good(q, l, r)
  PROVE  Leads(q, <<l>>, r)
<1> DEFINE f == [n \in 0..1 |-> IF n = 0 THEN q ELSE r]
<1>1. /\ f[0] = q /\ f[1] = r /\ <<l>> \in Seq(ToldLine) /\ Len(<<l>>) = 1 /\ <<l>>[1] = l
      /\ \A n \in 1..1 : n = 1 /\ n - 1 = 0
  OBVIOUS
<1> HIDE DEF f
<1>2. LeadsBy(f, q, <<l>>, r)
  BY <1>1 DEF LeadsBy
<1>3. QED
  BY <1>1, <1>2 DEF Leads

\* The client reads the first of the lines.
LEMMA LeadsHead ==
  ASSUME NEW q, NEW ls, NEW r, Leads(q, ls, r), ls # << >>
  PROVE  /\ Head(ls) \in ToldLine /\ Tail(ls) \in Seq(ToldLine)
         /\ Good(q, Head(ls), StateLine(q, Head(ls)))
         /\ Leads(StateLine(q, Head(ls)), Tail(ls), r)
<1>1. PICK f : LeadsBy(f, q, ls, r)
  BY DEF Leads
<1>2. /\ ls \in Seq(ToldLine) /\ Len(ls) \in Nat \ {0} /\ Head(ls) = ls[1] /\ ls[1] \in ToldLine
      /\ Tail(ls) \in Seq(ToldLine) /\ Len(Tail(ls)) = Len(ls) - 1
      /\ \A n \in 1..(Len(ls) - 1) : Tail(ls)[n] = ls[n + 1]
  BY EmptySeq DEF Leads
<1>3. Good(q, Head(ls), f[1]) /\ f[1] = StateLine(q, Head(ls))
  <2>1. 1 \in 1..Len(ls) /\ 1 - 1 = 0
    BY <1>2
  <2>2. QED
    BY <1>1, <1>2, <2>1 DEF LeadsBy, Good
<1> DEFINE g == [n \in 0..(Len(ls) - 1) |-> f[n + 1]]
<1>4. g[0] = f[1] /\ g[Len(ls) - 1] = r
  BY <1>1, <1>2 DEF LeadsBy
<1>5. ASSUME NEW n \in 1..(Len(ls) - 1) PROVE Good(g[n - 1], Tail(ls)[n], g[n])
  <2>1. n + 1 \in 1..Len(ls) /\ g[n - 1] = f[n] /\ g[n] = f[n + 1] /\ (n + 1) - 1 = n
    BY <1>2
  <2>2. QED
    BY <1>1, <1>2, <2>1 DEF LeadsBy
<1>6. LeadsBy(g, f[1], Tail(ls), r)
  <2> HIDE DEF g
  <2>1. QED
    BY <1>2, <1>4, <1>5 DEF LeadsBy
<1>7. QED
  BY <1>2, <1>3, <1>6 DEF Leads
-----------------------------------------------------------------------------
Pair(l) == <<l.key, l.value>>
PairsTo(ls, n) == {Pair(ls[i]) : i \in 1..n}

LEMMA PairsOn ==
  ASSUME NEW ls, NEW n \in Nat \ {0}
  PROVE  PairsTo(ls, n) = PairsTo(ls, n - 1) \cup {Pair(ls[n])}
<1>1. 1..n = 1..(n - 1) \cup {n}
  OBVIOUS
<1>2. QED
  BY <1>1 DEF PairsTo

\* Nothing takes the place of anything when every key has one value.
LEMMA PutAdds ==
  ASSUME NEW F, OneValueEach(F), NEW fields \in SUBSET F, NEW l, Pair(l) \in F
  PROVE  Put(fields, l) = fields \cup {Pair(l)}
<1>1. Pair(l)[1] = l.key
  BY DEF Pair
<1>2. ASSUME NEW f \in fields, f[1] = l.key, l.key # "allowed_ip" PROVE f = Pair(l)
  BY <1>1, <1>2 DEF OneValueEach
<1>3. QED
  BY <1>2 DEF Put, Pair

LEMMA KeysApart ==
  /\ NoKey \notin PlainKeys
  /\ \A k \in PlainKeys : k \notin {"errno", "public_key", "protocol_version", "unkeyed"}
  /\ StateKeys \cap StatePeerKeys = {}
  /\ NoKey \notin {"errno", "public_key", "protocol_version", "unkeyed"}
<1>1. NoKey \notin PlainKeys
  BY KeysDiffer DEF PlainKeys
<1>2. /\ \A k \in PlainKeys : k \notin {"errno", "public_key", "protocol_version", "unkeyed"}
      /\ StateKeys \cap StatePeerKeys = {}
  BY DEF PlainKeys, StateKeys, StatePeerKeys
<1>3. QED
  BY <1>1, <1>2, KeysDiffer

\* What a client that is not done makes of a line without a key.
LEMMA UnkeyedFails ==
  ASSUME NEW q \in Listening
  PROVE  StateLine(q, Line("unkeyed", Bad)).mode = "failed"
<1>1. Line("unkeyed", Bad).key = "unkeyed"
  BY DEF Line
<1>2. "unkeyed" \notin PlainKeys /\ "unkeyed" # NoKey
  BY KeysApart
<1>3. StateLine(q, Line("unkeyed", Bad)) = In(q, "failed")
  BY <1>1, <1>2 DEF StateLine, PlainKeys, Listening
<1>4. QED
  BY <1>3 DEF In, Listening

LEMMA ShorterIsNat == Shorter \in Nat /\ Bad \notin Nat
BY IpcAssumption DEF Shorter

\* A line of the interface, while there is no peer.
TopNext(q, l) == [mode |-> "top", top |-> Put(q.top, l), peers |-> q.peers]

LEMMA TopRead ==
  ASSUME NEW q \in Listening, q.mode \in {"first", "top"}, NEW k \in StateKeys, NEW v
  PROVE  /\ v = Bad => StateLine(q, Line(k, v)).mode = "failed"
         /\ v # Bad => StateLine(q, Line(k, v)) = TopNext(q, Line(k, v))
<1> DEFINE l == Line(k, v)
<1>1. l.key = k /\ l.value = v
  BY DEF Line
<1>2. k \in PlainKeys /\ k \notin StatePeerKeys
  BY KeysApart DEF PlainKeys
<1>3. k # NoKey /\ k \notin {"errno", "public_key", "protocol_version"}
  BY <1>2, KeysApart
<1> HIDE DEF l
<1>4. StateLine(q, l) = TopLine(In(q, "top"), l)
  BY <1>1, <1>2, <1>3 DEF StateLine
<1>5. In(q, "top") = [mode |-> "top", top |-> q.top, peers |-> q.peers]
  BY DEF In, Listening
<1>6. QED
  BY <1>1, <1>4, <1>5 DEF TopLine, In, TopNext, l

LEMMA TopGood ==
  ASSUME NEW q \in Listening, q.mode \in {"first", "top"},
         NEW l \in ToldLine, l.key \in StateKeys
  PROVE  Good(q, l, TopNext(q, l))
<1>1. l = Line(l.key, l.value) /\ l.value # Bad /\ l.value \in Nat
  BY ShorterIsNat DEF ToldLine, Line
<1>2. StateLine(q, l) = TopNext(q, l)
  BY <1>1, TopRead
<1>3. ASSUME NEW k \in Cut(l) PROVE StateLine(q, k).mode # "done"
  <2>1. k \in {Line("unkeyed", Bad), Line(l.key, Bad), l, Line(l.key, Shorter)}
    BY DEF Cut
  <2>2. StateLine(q, Line("unkeyed", Bad)).mode = "failed"
    BY UnkeyedFails
  <2>3. StateLine(q, Line(l.key, Bad)).mode = "failed"
    BY TopRead
  <2>4. StateLine(q, Line(l.key, Shorter)).mode = "top"
    BY TopRead, ShorterIsNat DEF TopNext
  <2>5. StateLine(q, l).mode = "top"
    BY <1>2 DEF TopNext
  <2>6. QED
    BY <2>1, <2>2, <2>3, <2>4, <2>5
<1>4. ~Over(q) /\ ~Over(TopNext(q, l))
  BY DEF Over, TopNext
<1>5. QED
  BY <1>2, <1>3, <1>4 DEF Good

\* The lines of the interface, and the parser after the first n of them.
TopAfter(ls, n) ==
  [mode |-> IF n = 0 THEN "first" ELSE "top", top |-> PairsTo(ls, n), peers |-> << >>]

ToldOf(F, keys) == {l \in ToldLine : l.key \in keys /\ Pair(l) \in F}

LEMMA TopLeads ==
  ASSUME NEW F \in ToldFields, OneValueEach(F), NEW ls \in Seq(ToldOf(F, StateKeys))
  PROVE  Leads(Start, ls, TopAfter(ls, Len(ls)))
<1>1. ls \in Seq(ToldLine) /\ Len(ls) \in Nat /\ \A n \in 1..Len(ls) : ls[n] \in ToldOf(F, StateKeys)
  <2>1. ToldOf(F, StateKeys) \subseteq ToldLine
    BY DEF ToldOf
  <2>2. QED
    BY <2>1, SeqOfMore
<1> DEFINE f == [n \in 0..Len(ls) |-> TopAfter(ls, n)]
<1>2. f[0] = Start /\ f[Len(ls)] = TopAfter(ls, Len(ls))
  <2>1. PairsTo(ls, 0) = {}
    BY DEF PairsTo
  <2>2. TopAfter(ls, 0) = Start
    BY <2>1 DEF TopAfter, Start
  <2>3. QED
    BY <1>1, <2>2
<1>3. ASSUME NEW n \in 1..Len(ls) PROVE Good(TopAfter(ls, n - 1), ls[n], TopAfter(ls, n))
  <2> DEFINE q == TopAfter(ls, n - 1)
             l == ls[n]
  <2>1. l \in ToldLine /\ l.key \in StateKeys /\ Pair(l) \in F
    BY <1>1 DEF ToldOf
  <2>2. PairsTo(ls, n - 1) \in SUBSET F
    BY <1>1 DEF PairsTo, ToldOf
  <2>3. PairsTo(ls, n - 1) \in ToldFields
    BY <2>2 DEF ToldFields
  <2>4. q \in Listening /\ q.mode \in {"first", "top"}
    BY <2>3 DEF TopAfter, Listening
  <2>5. Good(q, l, TopNext(q, l))
    BY <2>1, <2>4, TopGood
  <2>6. Put(PairsTo(ls, n - 1), l) = PairsTo(ls, n)
    <3>1. Put(PairsTo(ls, n - 1), l) = PairsTo(ls, n - 1) \cup {Pair(l)}
      BY <2>1, <2>2, PutAdds
    <3>2. PairsTo(ls, n) = PairsTo(ls, n - 1) \cup {Pair(ls[n])}
      BY <1>1, PairsOn
    <3>3. QED
      BY <3>1, <3>2
  <2>7. TopNext(q, l) = TopAfter(ls, n)
    BY <2>6 DEF TopNext, TopAfter
  <2>8. QED
    BY <2>5, <2>7
<1>4. LeadsBy(f, Start, ls, TopAfter(ls, Len(ls)))
  <2>1. \A n \in 1..Len(ls) : f[n - 1] = TopAfter(ls, n - 1) /\ f[n] = TopAfter(ls, n)
    BY <1>1
  <2> HIDE DEF f
  <2>2. QED
    BY <1>2, <1>3, <2>1 DEF LeadsBy
<1>5. QED
  BY <1>1, <1>4 DEF Leads

\* The line that begins a peer, and the parser after the first n lines of its block.
PeerAfter(q, v, ls, n) ==
  [mode |-> "peer", top |-> q.top,
   peers |-> Append(q.peers, [public_key |-> v, fields |-> PairsTo(ls, n)])]

LEMMA NewPeerGood ==
  ASSUME NEW q \in Listening, NEW v \in Nat, NEW ls
  PROVE  Good(q, Line("public_key", v), PeerAfter(q, v, ls, 0))
<1> DEFINE l == Line("public_key", v)
<1>1. l.key = "public_key" /\ l.value = v /\ v # Bad
  BY ShorterIsNat DEF Line
<1>2. "public_key" \notin PlainKeys /\ "public_key" # NoKey /\ NoKey \notin PlainKeys
  BY KeysApart
<1>3. ASSUME NEW w PROVE StateLine(q, Line("public_key", w)) = NewPeer(q, Line("public_key", w))
  <2>1. Line("public_key", w).key = "public_key"
    BY DEF Line
  <2>2. QED
    BY <1>2, <2>1 DEF StateLine, PlainKeys, Listening
<1> HIDE DEF l
<1>4. StateLine(q, l) = PeerAfter(q, v, ls, 0)
  <2>1. NewPeer(q, l) = [mode |-> "peer", top |-> q.top,
                         peers |-> Append(q.peers, [public_key |-> v, fields |-> {}])]
    BY <1>1 DEF NewPeer, In, Listening
  <2>2. PairsTo(ls, 0) = {}
    BY DEF PairsTo
  <2>3. QED
    BY <1>3, <2>1, <2>2 DEF PeerAfter, l
<1>5. ASSUME NEW k \in Cut(l) PROVE StateLine(q, k).mode # "done"
  <2>1. k \in {Line("unkeyed", Bad), Line("public_key", Bad), l}
    BY <1>1 DEF Cut
  <2>2. StateLine(q, Line("unkeyed", Bad)).mode = "failed"
    BY UnkeyedFails DEF Listening
  <2>3. StateLine(q, Line("public_key", Bad)).mode = "failed"
    <3>1. Line("public_key", Bad).value = Bad
      BY DEF Line
    <3>2. NewPeer(q, Line("public_key", Bad)) = In(q, "failed")
      BY <3>1 DEF NewPeer
    <3>3. In(q, "failed").mode = "failed"
      BY DEF In, Listening
    <3>4. QED
      BY <1>3, <3>2, <3>3
  <2>4. StateLine(q, l).mode = "peer"
    BY <1>4 DEF PeerAfter
  <2>5. QED
    BY <2>1, <2>2, <2>3, <2>4
<1>6. ~Over(q) /\ ~Over(PeerAfter(q, v, ls, 0))
  BY DEF Over, PeerAfter, Listening
<1>7. QED
  BY <1>4, <1>5, <1>6 DEF Good, l

\* A line of a peer.
PeerNext(q, p, l) ==
  [mode |-> "peer", top |-> q.top,
   peers |-> Append(q.peers, [public_key |-> p.public_key, fields |-> Put(p.fields, l)])]

AtPeer(q, p) == [mode |-> "peer", top |-> q.top, peers |-> Append(q.peers, p)]

LEMMA ReplaceLast ==
  ASSUME NEW S, NEW s \in Seq(S), NEW p, NEW r
  PROVE  [Append(s, p) EXCEPT ![Len(s) + 1] = r] = Append(s, r)
<1> DEFINE a == [Append(s, p) EXCEPT ![Len(s) + 1] = r]
<1>1. Len(s) \in Nat /\ s \in Seq(S \cup {p, r})
  BY SeqOfMore
<1>2. Append(s, p) \in Seq(S \cup {p, r}) /\ Append(s, r) \in Seq(S \cup {p, r})
  BY <1>1
<1>3. Len(Append(s, p)) = Len(s) + 1 /\ Len(Append(s, r)) = Len(s) + 1
  BY <1>1
<1>4. a \in Seq(S \cup {p, r}) /\ Len(a) = Len(s) + 1
  BY <1>2, <1>3
<1>5. ASSUME NEW i \in 1..(Len(s) + 1) PROVE a[i] = Append(s, r)[i]
  <2>1. CASE i = Len(s) + 1
    BY <1>1, <1>2, <1>3, <2>1
  <2>2. CASE i # Len(s) + 1
    <3>1. DOMAIN Append(s, p) = 1..(Len(s) + 1)
      BY <1>2, <1>3
    <3>2. a[i] = Append(s, p)[i]
      BY <2>2, <3>1
    <3>3. i \in 1..Len(s)
      BY <1>1, <2>2
    <3>4. QED
      BY <1>1, <3>2, <3>3
  <2>3. QED
    BY <2>1, <2>2
<1> HIDE DEF a
<1>6. a = Append(s, r)
  BY <1>2, <1>3, <1>4, <1>5
<1>7. QED
  BY <1>6 DEF a

LEMMA PeerRead ==
  ASSUME NEW q \in Listening, NEW p \in ToldPeers, NEW k \in StatePeerKeys, NEW v,
         k = "last_handshake_time_nsec" => Has(p.fields, "last_handshake_time_sec")
  PROVE  /\ v = Bad => StateLine(AtPeer(q, p), Line(k, v)).mode = "failed"
         /\ v # Bad => StateLine(AtPeer(q, p), Line(k, v)) = PeerNext(q, p, Line(k, v))
<1> DEFINE l == Line(k, v)
           a == AtPeer(q, p)
<1>1. l.key = k /\ l.value = v
  BY DEF Line
<1>2. k # "public_key" /\ k \notin StateKeys /\ k \in PlainKeys
  BY KeysApart DEF PlainKeys
<1>3. /\ q.peers \in Seq(ToldPeers) /\ a.mode = "peer" /\ a.top = q.top
      /\ a.peers = Append(q.peers, p) /\ Len(a.peers) = Len(q.peers) + 1
      /\ Len(q.peers) \in Nat /\ a.peers[Len(q.peers) + 1] = p
  BY DEF AtPeer, Listening
<1>4. Last(a.peers) = p
  BY <1>3 DEF Last
<1> HIDE DEF l
<1>5. StateLine(a, l) = PeerLine(a, l)
  BY <1>1, <1>2, <1>3, <1>4 DEF StateLine, Has
<1>6. CASE v = Bad
  BY <1>1, <1>3, <1>5, <1>6 DEF PeerLine, In, AtPeer, l
<1>7. CASE v # Bad
  <2>1. [a.peers EXCEPT ![Len(a.peers)].fields = Put(@, l)]
          = Append(q.peers, [public_key |-> p.public_key, fields |-> Put(p.fields, l)])
    <3> DEFINE r == [public_key |-> p.public_key, fields |-> Put(p.fields, l)]
    <3>1. [p EXCEPT !.fields = Put(@, l)] = r
      BY DEF ToldPeers
    <3>2. [a.peers EXCEPT ![Len(a.peers)].fields = Put(@, l)] = [a.peers EXCEPT ![Len(a.peers)] = r]
      BY <1>3, <3>1
    <3>3. [Append(q.peers, p) EXCEPT ![Len(q.peers) + 1] = r] = Append(q.peers, r)
      <4> HIDE DEF r
      <4>1. q.peers \in Seq(ToldPeers)
        BY <1>3
      <4>2. QED
        BY <4>1, ReplaceLast
    <3>4. QED
      BY <1>3, <3>2, <3>3
  <2>2. PeerLine(a, l) = [a EXCEPT !.peers = [a.peers EXCEPT ![Len(a.peers)].fields = Put(@, l)]]
    BY <1>1, <1>7 DEF PeerLine
  <2>3. QED
    BY <1>5, <1>7, <2>1, <2>2 DEF PeerNext, AtPeer, l
<1>8. QED
  BY <1>6, <1>7

\* The time of a handshake begins with its seconds.
SecondsFirst(ls) ==
  \A n \in 1..Len(ls) : ls[n].key = "last_handshake_time_nsec" =>
    \E i \in 1..(n - 1) : ls[i].key = "last_handshake_time_sec"

LEMMA PeerGood ==
  ASSUME NEW q \in Listening, NEW p \in ToldPeers,
         NEW l \in ToldLine, l.key \in StatePeerKeys,
         l.key = "last_handshake_time_nsec" => Has(p.fields, "last_handshake_time_sec")
  PROVE  Good(AtPeer(q, p), l, PeerNext(q, p, l))
<1> DEFINE a == AtPeer(q, p)
<1>1. l = Line(l.key, l.value) /\ l.value # Bad /\ l.value \in Nat
  BY ShorterIsNat DEF ToldLine, Line
<1>2. StateLine(a, l) = PeerNext(q, p, l)
  BY <1>1, PeerRead
<1>3. a \in Listening
  BY DEF AtPeer, Listening
<1>4. ASSUME NEW k \in Cut(l) PROVE StateLine(a, k).mode # "done"
  <2>1. k \in {Line("unkeyed", Bad), Line(l.key, Bad), l, Line(l.key, Shorter)}
    BY DEF Cut
  <2>2. StateLine(a, Line("unkeyed", Bad)).mode = "failed"
    BY <1>3, UnkeyedFails DEF Listening
  <2>3. StateLine(a, Line(l.key, Bad)).mode = "failed"
    BY PeerRead
  <2>4. StateLine(a, Line(l.key, Shorter)).mode = "peer"
    <3>1. StateLine(a, Line(l.key, Shorter)) = PeerNext(q, p, Line(l.key, Shorter))
      BY PeerRead, ShorterIsNat
    <3>2. QED
      BY <3>1 DEF PeerNext
  <2>5. StateLine(a, l).mode = "peer"
    BY <1>2 DEF PeerNext
  <2>6. QED
    BY <2>1, <2>2, <2>3, <2>4, <2>5
<1>5. ~Over(a) /\ ~Over(PeerNext(q, p, l))
  BY DEF Over, PeerNext, AtPeer
<1>6. QED
  BY <1>2, <1>4, <1>5 DEF Good

LEMMA PeerLeads ==
  ASSUME NEW q \in Listening, NEW v \in Nat, NEW F \in ToldFields, OneValueEach(F),
         NEW ls \in Seq(ToldOf(F, StatePeerKeys)), SecondsFirst(ls)
  PROVE  /\ Leads(PeerAfter(q, v, ls, 0), ls, PeerAfter(q, v, ls, Len(ls)))
         /\ PeerAfter(q, v, ls, Len(ls)) \in Listening
<1>1. ls \in Seq(ToldLine) /\ Len(ls) \in Nat /\ \A n \in 1..Len(ls) : ls[n] \in ToldOf(F, StatePeerKeys)
  <2>1. ToldOf(F, StatePeerKeys) \subseteq ToldLine
    BY DEF ToldOf
  <2>2. QED
    BY <2>1, SeqOfMore
<1> DEFINE f == [n \in 0..Len(ls) |-> PeerAfter(q, v, ls, n)]
           p(n) == [public_key |-> v, fields |-> PairsTo(ls, n)]
<1>2. ASSUME NEW n \in 0..Len(ls)
      PROVE  /\ PairsTo(ls, n) \in SUBSET F /\ p(n) \in ToldPeers
             /\ PeerAfter(q, v, ls, n) = AtPeer(q, p(n))
  <2>1. PairsTo(ls, n) \in SUBSET F
    BY <1>1 DEF PairsTo, ToldOf
  <2>2. PairsTo(ls, n) \in ToldFields
    BY <2>1 DEF ToldFields
  <2>3. QED
    BY <2>1, <2>2 DEF ToldPeers, PeerAfter, AtPeer
<1>3. ASSUME NEW n \in 1..Len(ls) PROVE Good(PeerAfter(q, v, ls, n - 1), ls[n], PeerAfter(q, v, ls, n))
  <2> DEFINE l == ls[n]
  <2>1. l \in ToldLine /\ l.key \in StatePeerKeys /\ Pair(l) \in F
    BY <1>1 DEF ToldOf
  <2>2. n - 1 \in 0..Len(ls) /\ n \in Nat \ {0}
    BY <1>1
  <2>3. Put(PairsTo(ls, n - 1), l) = PairsTo(ls, n)
    <3>1. Put(PairsTo(ls, n - 1), l) = PairsTo(ls, n - 1) \cup {Pair(l)}
      BY <1>2, <2>1, <2>2, PutAdds
    <3>2. PairsTo(ls, n) = PairsTo(ls, n - 1) \cup {Pair(ls[n])}
      BY <2>2, PairsOn
    <3>3. QED
      BY <3>1, <3>2
  <2>4. l.key = "last_handshake_time_nsec" => Has(PairsTo(ls, n - 1), "last_handshake_time_sec")
    <3> SUFFICES ASSUME l.key = "last_handshake_time_nsec"
                 PROVE  Has(PairsTo(ls, n - 1), "last_handshake_time_sec")
      OBVIOUS
    <3>1. PICK i \in 1..(n - 1) : ls[i].key = "last_handshake_time_sec"
      BY DEF SecondsFirst
    <3>2. Pair(ls[i]) \in PairsTo(ls, n - 1) /\ Pair(ls[i])[1] = "last_handshake_time_sec"
      BY <3>1 DEF PairsTo, Pair
    <3>3. QED
      BY <3>2 DEF Has
  <2>5. Good(AtPeer(q, p(n - 1)), l, PeerNext(q, p(n - 1), l))
    <3> DEFINE r == p(n - 1)
    <3>1. r \in ToldPeers /\ r.fields = PairsTo(ls, n - 1)
      BY <1>2, <2>2
    <3> HIDE DEF r, l
    <3>2. Good(AtPeer(q, r), l, PeerNext(q, r, l))
      BY <2>1, <2>4, <3>1, PeerGood
    <3>3. QED
      BY <3>2 DEF r
  <2>6. PeerNext(q, p(n - 1), l) = PeerAfter(q, v, ls, n)
    BY <2>3 DEF PeerNext, PeerAfter
  <2>7. QED
    BY <1>2, <2>2, <2>5, <2>6
<1>4. LeadsBy(f, PeerAfter(q, v, ls, 0), ls, PeerAfter(q, v, ls, Len(ls)))
  <2>1. \A n \in 1..Len(ls) : f[n - 1] = PeerAfter(q, v, ls, n - 1) /\ f[n] = PeerAfter(q, v, ls, n)
    BY <1>1
  <2>2. f[0] = PeerAfter(q, v, ls, 0) /\ f[Len(ls)] = PeerAfter(q, v, ls, Len(ls))
    BY <1>1
  <2> HIDE DEF f
  <2>3. QED
    BY <1>3, <2>1, <2>2 DEF LeadsBy
<1>5. PeerAfter(q, v, ls, Len(ls)) \in Listening
  <2>1. Len(ls) \in 0..Len(ls)
    BY <1>1
  <2> DEFINE r == p(Len(ls))
  <2>2. r \in ToldPeers /\ PeerAfter(q, v, ls, Len(ls)) = AtPeer(q, r)
    BY <1>2, <2>1
  <2> HIDE DEF r
  <2>3. AtPeer(q, r) \in Listening
    BY <2>2 DEF AtPeer, Listening
  <2>4. QED
    BY <2>2, <2>3
<1>6. QED
  BY <1>1, <1>4, <1>5 DEF Leads

\* The block of a peer.
LEMMA BlockLeads ==
  ASSUME NEW q \in Listening, NEW v \in Nat, NEW F \in ToldFields, OneValueEach(F),
         NEW ls \in Seq(ToldOf(F, StatePeerKeys)), SecondsFirst(ls)
  PROVE  /\ Leads(q, <<Line("public_key", v)>> \o ls, PeerAfter(q, v, ls, Len(ls)))
         /\ PeerAfter(q, v, ls, Len(ls)) \in Listening
<1>1. Line("public_key", v) \in ToldLine
  BY DEF Line, ToldLine
<1>2. Leads(q, <<Line("public_key", v)>>, PeerAfter(q, v, ls, 0))
  BY <1>1, NewPeerGood, LeadsOne
<1>3. QED
  BY <1>2, PeerLeads, LeadsConcat

-----------------------------------------------------------------------------
\* FlattenSeq is what its recursive definition says: all sequences, in their order.
Flattens(f, ss, m) ==
  f = [i \in 1..m |-> IF i = 1 THEN ss[i] ELSE f[i - 1] \o ss[i]]

LEMMA FlattensOn ==
  ASSUME NEW ss, NEW m \in Nat, NEW f, Flattens(f, ss, m)
  PROVE  \E g : Flattens(g, ss, m + 1)
<1> DEFINE new == IF m = 0 THEN ss[1] ELSE f[m] \o ss[m + 1]
           g == [i \in 1..(m + 1) |-> IF i = m + 1 THEN new ELSE f[i]]
<1>1. \A i \in 1..m : f[i] = IF i = 1 THEN ss[i] ELSE f[i - 1] \o ss[i]
  BY DEF Flattens
<1>2. ASSUME NEW i \in 1..(m + 1)
      PROVE  g[i] = IF i = 1 THEN ss[i] ELSE g[i - 1] \o ss[i]
  <2>1. CASE i = m + 1 /\ m = 0
    BY <2>1
  <2>2. CASE i = m + 1 /\ m # 0
    <3>1. m \in 1..(m + 1) /\ i - 1 = m /\ i # 1 /\ g[m] = f[m]
      BY <2>2
    <3> HIDE DEF new
    <3>2. g[i] = new
      BY <2>2
    <3> HIDE DEF g
    <3>3. QED
      BY <2>2, <3>1, <3>2 DEF new
  <2>3. CASE i # m + 1
    <3>1. i \in 1..m /\ g[i] = f[i]
      BY <2>3
    <3>2. i # 1 => g[i - 1] = f[i - 1]
      BY <2>3
    <3> HIDE DEF g
    <3>3. QED
      BY <1>1, <3>1, <3>2
  <2>4. QED
    BY <2>1, <2>2, <2>3
<1>3. Flattens(g, ss, m + 1)
  <2>1. g = [i \in 1..(m + 1) |-> g[i]]
    OBVIOUS
  <2> HIDE DEF g
  <2>2. QED
    BY <1>2, <2>1 DEF Flattens
<1>4. QED
  BY <1>3, Zenon

Flat(ss) ==
  LET f[i \in 1..Len(ss)] == IF i = 1 THEN ss[i] ELSE f[i - 1] \o ss[i] IN f

LEMMA FlatUnfolds ==
  ASSUME NEW ss, Len(ss) \in Nat \ {0}
  PROVE  /\ FlattenSeq(ss) = Flat(ss)[Len(ss)]
         /\ Flat(ss)[1] = ss[1]
         /\ \A i \in 1..(Len(ss) - 1) : Flat(ss)[i + 1] = Flat(ss)[i] \o ss[i + 1]
<1> DEFINE S == {m \in Nat : \E f : Flattens(f, ss, m)}
<1>1. 0 \in S
  <2>1. Flattens([i \in 1..0 |-> 0], ss, 0)
    BY DEF Flattens
  <2>2. QED
    BY <2>1, Zenon
<1>2. \A m \in Nat : m \in S => m + 1 \in S
  BY FlattensOn
<1>3. Nat \subseteq S
  <2> HIDE DEF S
  <2>1. QED
    BY <1>1, <1>2, Induct
<1>4. Flattens(Flat(ss), ss, Len(ss))
  <2>1. \E f : Flattens(f, ss, Len(ss))
    BY <1>3
  <2>2. QED
    BY <2>1, Zenon DEF Flat, Flattens
<1>5. FlattenSeq(ss) = Flat(ss)[Len(ss)]
  BY Zenon DEF FlattenSeq, Flat
<1>6. \A i \in 1..Len(ss) : Flat(ss)[i] = IF i = 1 THEN ss[i] ELSE Flat(ss)[i - 1] \o ss[i]
  BY <1>4 DEF Flattens
<1>7. Flat(ss)[1] = ss[1]
  BY <1>6
<1>8. ASSUME NEW i \in 1..(Len(ss) - 1) PROVE Flat(ss)[i + 1] = Flat(ss)[i] \o ss[i + 1]
  <2>1. i + 1 \in 1..Len(ss) /\ i + 1 # 1 /\ i + 1 - 1 = i
    OBVIOUS
  <2> DEFINE j == i + 1
  <2>2. Flat(ss)[j] = IF j = 1 THEN ss[j] ELSE Flat(ss)[j - 1] \o ss[j]
    <3>1. j \in 1..Len(ss)
      BY <2>1
    <3> HIDE DEF j
    <3>2. QED
      BY <1>6, <3>1
  <2>3. j # 1 /\ j - 1 = i
    BY <2>1
  <2> HIDE DEF j
  <2>4. Flat(ss)[j] = Flat(ss)[i] \o ss[j]
    BY <2>2, <2>3
  <2>5. QED
    BY <2>4 DEF j
<1>9. QED
  BY <1>5, <1>7, <1>8

\* SetToSeq leaves nothing out.
LEMMA SetToSeqIsOnto ==
  ASSUME NEW S, IsFiniteSet(S)
  PROVE  /\ SetToSeq(S) \in Seq(S)
         /\ \A x \in S : \E i \in 1..Len(SetToSeq(S)) : SetToSeq(S)[i] = x
<1> DEFINE D == 1..Cardinality(S)
<1>1. Cardinality(S) \in Nat /\ ExistsBijection(D, S)
  BY FS_CardinalityType
<1>2. \E f \in [D -> S] : IsInjective(f)
  BY <1>1, Zenon DEF ExistsBijection, Bijection, Injection
<1>3. SetToSeq(S) \in [D -> S] /\ IsInjective(SetToSeq(S))
  BY <1>2, Zenon DEF SetToSeq
<1>4. SetToSeq(S) \in Injection(D, S)
  BY <1>3, Zenon DEF Injection
<1>5. IsFiniteSet(D) /\ Cardinality(D) = Cardinality(S)
  BY <1>1, FS_Bijection, FS_Interval, FS_CountingElements
<1>6. SetToSeq(S) \in Surjection(D, S)
  BY <1>4, <1>5, FS_Injection, Zenon
<1>7. \A x \in S : \E i \in D : SetToSeq(S)[i] = x
  BY <1>6, Zenon DEF Surjection
<1>8. SetToSeq(S) \in Seq(S) /\ Len(SetToSeq(S)) = Cardinality(S)
  BY <1>1, <1>3
<1>9. QED
  BY <1>7, <1>8

\* The lines show these fields.
Shows(ls, fields) == ls \in Seq(ToldLine) /\ PairsTo(ls, Len(ls)) = fields

LEMMA ShowsConcat ==
  ASSUME NEW a, NEW b, NEW A, NEW B, Shows(a, A), Shows(b, B)
  PROVE  Shows(a \o b, A \cup B)
<1>1. /\ a \in Seq(ToldLine) /\ b \in Seq(ToldLine) /\ a \o b \in Seq(ToldLine)
      /\ Len(a) \in Nat /\ Len(b) \in Nat /\ Len(a \o b) = Len(a) + Len(b)
      /\ \A i \in 1..Len(a) : (a \o b)[i] = a[i]
      /\ \A i \in 1..Len(b) : (a \o b)[Len(a) + i] = b[i]
  BY DEF Shows
<1>2. ASSUME NEW x \in PairsTo(a \o b, Len(a) + Len(b)) PROVE x \in A \cup B
  <2>1. PICK i \in 1..(Len(a) + Len(b)) : x = Pair((a \o b)[i])
    BY DEF PairsTo
  <2>2. CASE i <= Len(a)
    <3>1. i \in 1..Len(a) /\ x = Pair(a[i])
      BY <1>1, <2>1, <2>2
    <3>2. QED
      BY <3>1 DEF Shows, PairsTo
  <2>3. CASE i > Len(a)
    <3>1. i - Len(a) \in 1..Len(b) /\ Len(a) + (i - Len(a)) = i
      BY <1>1, <2>3
    <3>2. x = Pair(b[i - Len(a)])
      BY <1>1, <2>1, <3>1
    <3>3. QED
      BY <3>1, <3>2 DEF Shows, PairsTo
  <2>4. QED
    BY <1>1, <2>2, <2>3
<1>3. ASSUME NEW x \in A PROVE x \in PairsTo(a \o b, Len(a) + Len(b))
  <2>1. PICK i \in 1..Len(a) : x = Pair(a[i])
    BY DEF Shows, PairsTo
  <2>2. i \in 1..(Len(a) + Len(b)) /\ x = Pair((a \o b)[i])
    BY <1>1, <2>1
  <2>3. QED
    BY <2>2 DEF PairsTo
<1>4. ASSUME NEW x \in B PROVE x \in PairsTo(a \o b, Len(a) + Len(b))
  <2>1. PICK i \in 1..Len(b) : x = Pair(b[i])
    BY DEF Shows, PairsTo
  <2>2. Len(a) + i \in 1..(Len(a) + Len(b)) /\ x = Pair((a \o b)[Len(a) + i])
    BY <1>1, <2>1
  <2>3. QED
    BY <2>2 DEF PairsTo
<1>5. PairsTo(a \o b, Len(a) + Len(b)) = A \cup B
  BY <1>2, <1>3, <1>4
<1>6. QED
  BY <1>1, <1>5 DEF Shows

OfKey(fields, k) == {f \in fields : f[1] = k}

LEMMA KeyLinesShow ==
  ASSUME NEW fields \in ToldFields, IsFiniteSet(fields), NEW k \in PlainKeys
  PROVE  /\ Shows(KeyLines(fields, k), OfKey(fields, k))
         /\ \A i \in 1..Len(KeyLines(fields, k)) : KeyLines(fields, k)[i].key = k
<1> DEFINE L == {Line(k, f[2]) : f \in {g \in fields : g[1] = k}}
           ls == KeyLines(fields, k)
<1>1. IsFiniteSet(L)
  <2> DEFINE G == {g \in fields : g[1] = k}
  <2>1. IsFiniteSet(G)
    BY FS_Subset
  <2> HIDE DEF G
  <2>2. IsFiniteSet({Line(k, f[2]) : f \in G})
    <3> DEFINE h == [f \in G |-> Line(k, f[2])]
    <3>1. {Line(k, f[2]) : f \in G} = {h[f] : f \in G}
      OBVIOUS
    <3>2. h \in Surjection(G, {h[f] : f \in G})
      BY DEF Surjection
    <3> HIDE DEF h
    <3>3. IsFiniteSet({h[f] : f \in G})
      BY <2>1, <3>2, FS_Surjection, Zenon
    <3>4. QED
      BY <3>1, <3>3
  <2>3. QED
    BY <2>2 DEF G
<1>2. ls \in Seq(L) /\ \A x \in L : \E i \in 1..Len(ls) : ls[i] = x
  <2>1. ls = SetToSeq(L)
    BY Zenon DEF KeyLines
  <2> HIDE DEF L, ls
  <2>2. QED
    BY <1>1, <2>1, SetToSeqIsOnto
<1>3. ASSUME NEW x \in L PROVE x \in ToldLine /\ x.key = k /\ Pair(x) \in OfKey(fields, k)
  <2>1. PICK f \in fields : f[1] = k /\ x = Line(k, f[2])
    OBVIOUS
  <2>2. f \in PlainKeys \X Nat
    BY DEF ToldFields
  <2>3. x \in ToldLine /\ x.key = k
    BY <2>1, <2>2 DEF Line, ToldLine
  <2>4. Pair(x) = f
    BY <2>1, <2>2 DEF Line, Pair
  <2>5. QED
    BY <2>1, <2>3, <2>4 DEF OfKey
<1>4. ASSUME NEW f \in OfKey(fields, k) PROVE Line(k, f[2]) \in L /\ Pair(Line(k, f[2])) = f
  <2>1. f \in fields /\ f[1] = k /\ f \in PlainKeys \X Nat
    BY DEF OfKey, ToldFields
  <2>2. Pair(Line(k, f[2])) = f
    BY <2>1 DEF Pair, Line
  <2>3. QED
    BY <2>1, <2>2
<1> HIDE DEF L
<1>5. ls \in Seq(ToldLine) /\ Len(ls) \in Nat /\ \A i \in 1..Len(ls) : ls[i] \in L
  <2>1. L \subseteq ToldLine
    BY <1>3
  <2> HIDE DEF ls
  <2>2. QED
    BY <1>2, <2>1, SeqOfMore
<1> HIDE DEF ls
<1>6. PairsTo(ls, Len(ls)) = OfKey(fields, k)
  <2>1. ASSUME NEW i \in 1..Len(ls) PROVE Pair(ls[i]) \in OfKey(fields, k)
    BY <1>3, <1>5
  <2>2. ASSUME NEW f \in OfKey(fields, k) PROVE \E i \in 1..Len(ls) : Pair(ls[i]) = f
    BY <1>2, <1>4
  <2>3. QED
    BY <2>1, <2>2 DEF PairsTo
<1>7. Shows(ls, OfKey(fields, k)) /\ \A i \in 1..Len(ls) : ls[i].key = k
  BY <1>3, <1>5, <1>6 DEF Shows
<1>8. QED
  BY <1>7 DEF ls

\* The lines for the first n keys.
LinesTo(fields, keys, n) == Flat([i \in DOMAIN keys |-> KeyLines(fields, keys[i])])[n]
OfKeys(fields, keys, n) == {f \in fields : \E i \in 1..n : f[1] = keys[i]}

LEMMA LinesToUnfolds ==
  ASSUME NEW fields, NEW keys \in Seq(PlainKeys), keys # << >>
  PROVE  /\ FieldLines(fields, keys) = LinesTo(fields, keys, Len(keys))
         /\ LinesTo(fields, keys, 1) = KeyLines(fields, keys[1])
         /\ \A n \in 1..(Len(keys) - 1) :
              LinesTo(fields, keys, n + 1) = LinesTo(fields, keys, n) \o KeyLines(fields, keys[n + 1])
<1> DEFINE ss == [i \in DOMAIN keys |-> KeyLines(fields, keys[i])]
<1>1. /\ Len(keys) \in Nat \ {0} /\ DOMAIN keys = 1..Len(keys)
      /\ Len(ss) = Len(keys) /\ \A i \in 1..Len(keys) : ss[i] = KeyLines(fields, keys[i])
  BY EmptySeq
<1>2. FieldLines(fields, keys) = FlattenSeq(ss) /\ \A n : LinesTo(fields, keys, n) = Flat(ss)[n]
  BY Zenon DEF FieldLines, LinesTo
<1> HIDE DEF ss
<1>3. /\ FlattenSeq(ss) = Flat(ss)[Len(ss)]
      /\ Flat(ss)[1] = ss[1]
      /\ \A i \in 1..(Len(ss) - 1) : Flat(ss)[i + 1] = Flat(ss)[i] \o ss[i + 1]
  BY <1>1, FlatUnfolds
<1>4. ASSUME NEW n \in 1..(Len(keys) - 1) PROVE ss[n + 1] = KeyLines(fields, keys[n + 1])
  BY <1>1
<1>5. LinesTo(fields, keys, 1) = KeyLines(fields, keys[1])
  <2>1. 1 \in 1..Len(keys)
    BY <1>1
  <2>2. QED
    BY <1>1, <1>2, <1>3, <2>1
<1>6. ASSUME NEW n \in 1..(Len(keys) - 1)
      PROVE  LinesTo(fields, keys, n + 1) = LinesTo(fields, keys, n) \o KeyLines(fields, keys[n + 1])
  <2>1. Flat(ss)[n + 1] = Flat(ss)[n] \o ss[n + 1]
    BY <1>1, <1>3
  <2>2. QED
    BY <1>2, <1>4, <2>1
<1>7. FieldLines(fields, keys) = LinesTo(fields, keys, Len(keys))
  BY <1>1, <1>2, <1>3
<1>8. QED
  BY <1>5, <1>6, <1>7

LEMMA LinesToShow ==
  ASSUME NEW fields \in ToldFields, IsFiniteSet(fields), NEW keys \in Seq(PlainKeys), keys # << >>
  PROVE  \A n \in 1..Len(keys) : Shows(LinesTo(fields, keys, n), OfKeys(fields, keys, n))
<1>1. Len(keys) \in Nat \ {0} /\ \A n \in 1..Len(keys) : keys[n] \in PlainKeys
  BY EmptySeq
<1> DEFINE T == {n \in Nat : n + 1 <= Len(keys) =>
                   Shows(LinesTo(fields, keys, n + 1), OfKeys(fields, keys, n + 1))}
<1>2. 0 \in T
  <2>1. OfKeys(fields, keys, 1) = OfKey(fields, keys[1])
    BY DEF OfKeys, OfKey
  <2>2. Shows(KeyLines(fields, keys[1]), OfKey(fields, keys[1]))
    BY <1>1, KeyLinesShow
  <2>3. QED
    BY <2>1, <2>2, LinesToUnfolds
<1>3. ASSUME NEW n \in Nat, n \in T PROVE n + 1 \in T
  <2> SUFFICES ASSUME (n + 1) + 1 <= Len(keys)
               PROVE  Shows(LinesTo(fields, keys, (n + 1) + 1), OfKeys(fields, keys, (n + 1) + 1))
    OBVIOUS
  <2> DEFINE m == n + 1
  <2>1. Shows(LinesTo(fields, keys, m), OfKeys(fields, keys, m)) /\ m \in 1..(Len(keys) - 1)
    BY <1>1, <1>3
  <2> HIDE DEF m
  <2>2. Shows(KeyLines(fields, keys[m + 1]), OfKey(fields, keys[m + 1]))
    BY <1>1, <2>1, KeyLinesShow
  <2>3. LinesTo(fields, keys, m + 1) = LinesTo(fields, keys, m) \o KeyLines(fields, keys[m + 1])
    BY <2>1, LinesToUnfolds
  <2>4. OfKeys(fields, keys, m + 1) = OfKeys(fields, keys, m) \cup OfKey(fields, keys[m + 1])
    <3>1. 1..(m + 1) = 1..m \cup {m + 1}
      BY <2>1
    <3>2. QED
      BY <3>1 DEF OfKeys, OfKey
  <2>5. Shows(LinesTo(fields, keys, m + 1), OfKeys(fields, keys, m + 1))
    <3>1. Shows(LinesTo(fields, keys, m) \o KeyLines(fields, keys[m + 1]),
                OfKeys(fields, keys, m) \cup OfKey(fields, keys[m + 1]))
      BY <2>1, <2>2, ShowsConcat, Zenon
    <3>2. QED
      BY <2>3, <2>4, <3>1
  <2>6. QED
    BY <2>5 DEF m
<1>4. Nat \subseteq T
  <2> HIDE DEF T
  <2>1. QED
    BY <1>2, <1>3, Induct
<1>5. ASSUME NEW n \in 1..Len(keys) PROVE Shows(LinesTo(fields, keys, n), OfKeys(fields, keys, n))
  <2>1. n - 1 \in Nat /\ (n - 1) + 1 = n
    BY <1>1
  <2>2. n - 1 \in T
    BY <1>4, <2>1
  <2>3. QED
    BY <1>1, <2>1, <2>2
<1>6. QED
  BY <1>5

LEMMA WrittenKeys ==
  /\ TopKeys \in Seq(StateKeys) /\ TopKeys # << >>
  /\ PeerKeys \in Seq(StatePeerKeys) /\ PeerKeys # << >>
  /\ Len(PeerKeys) = 8 /\ PeerKeys[7] = "last_handshake_time_sec"
  /\ PeerKeys[8] = "last_handshake_time_nsec"
  /\ \A i \in 1..7 : PeerKeys[i] # "last_handshake_time_nsec"
<1>1. TopKeys \in Seq(StateKeys) /\ TopKeys # << >>
  BY DEF TopKeys, StateKeys
<1>2. PeerKeys \in Seq(StatePeerKeys) /\ PeerKeys # << >> /\ Len(PeerKeys) = 8
  BY DEF PeerKeys, StatePeerKeys
<1>3. /\ PeerKeys[7] = "last_handshake_time_sec" /\ PeerKeys[8] = "last_handshake_time_nsec"
      /\ \A i \in 1..7 : PeerKeys[i] # "last_handshake_time_nsec"
  BY DEF PeerKeys
<1>4. QED
  BY <1>1, <1>2, <1>3

LEMMA FieldLinesShow ==
  ASSUME NEW K, K \subseteq PlainKeys, NEW keys \in Seq(K), keys # << >>,
         NEW fields, fields \subseteq FieldsOf(keys), IsFiniteSet(fields)
  PROVE  /\ fields \in ToldFields
         /\ FieldLines(fields, keys) \in Seq(ToldOf(fields, K))
         /\ Shows(FieldLines(fields, keys), fields)
<1>1. Len(keys) \in Nat \ {0} /\ DOMAIN keys = 1..Len(keys) /\ \A i \in 1..Len(keys) : keys[i] \in K
  BY EmptySeq
<1>2. \A f \in fields : f \in K \X Nat /\ \E i \in 1..Len(keys) : f[1] = keys[i]
  BY <1>1 DEF FieldsOf
<1>3. fields \in ToldFields /\ OfKeys(fields, keys, Len(keys)) = fields
  BY <1>2 DEF ToldFields, OfKeys
<1>4. keys \in Seq(PlainKeys)
  BY SeqOfMore
<1> DEFINE ls == FieldLines(fields, keys)
<1>5. Shows(ls, fields)
  <2>1. Len(keys) \in 1..Len(keys)
    BY <1>1
  <2>2. Shows(LinesTo(fields, keys, Len(keys)), OfKeys(fields, keys, Len(keys)))
    BY <1>3, <1>4, <2>1, LinesToShow
  <2>3. QED
    BY <1>3, <1>4, <2>2, LinesToUnfolds
<1> HIDE DEF ls
<1>6. ls \in Seq(ToldOf(fields, K))
  <2>1. ls \in Seq(ToldLine) /\ Len(ls) \in Nat /\ ls \in [1..Len(ls) -> ToldLine]
    BY <1>5 DEF Shows
  <2>2. ASSUME NEW i \in 1..Len(ls) PROVE ls[i] \in ToldOf(fields, K)
    <3>1. Pair(ls[i]) \in fields /\ ls[i] \in ToldLine
      BY <1>5, <2>1 DEF Shows, PairsTo
    <3>2. Pair(ls[i])[1] = ls[i].key
      BY DEF Pair
    <3>3. ls[i].key \in K
      BY <1>2, <3>1, <3>2
    <3>4. QED
      BY <3>1, <3>3 DEF ToldOf
  <2>3. ls \in [1..Len(ls) -> ToldOf(fields, K)]
    BY <2>1, <2>2
  <2>4. QED
    BY <2>1, <2>3
<1>7. QED
  BY <1>3, <1>5, <1>6 DEF ls

LEMMA TimeShown ==
  ASSUME NEW fields, fields \subseteq FieldsOf(PeerKeys), IsFiniteSet(fields),
         Has(fields, "last_handshake_time_nsec") => Has(fields, "last_handshake_time_sec")
  PROVE  SecondsFirst(FieldLines(fields, PeerKeys))
<1> DEFINE a == LinesTo(fields, PeerKeys, 7)
           b == KeyLines(fields, PeerKeys[8])
<1>1. PeerKeys \in Seq(PlainKeys) /\ PeerKeys # << >> /\ fields \in ToldFields
  <2>1. StatePeerKeys \subseteq PlainKeys
    BY DEF PlainKeys
  <2>2. QED
    BY <2>1, WrittenKeys, SeqOfMore, FieldLinesShow
<1>2. Len(PeerKeys) = 8 /\ 7 \in 1..(8 - 1) /\ 7 \in 1..8 /\ 7 + 1 = 8 /\ PeerKeys[8] \in PlainKeys
  <2>1. Len(PeerKeys) = 8 /\ \A i \in 1..Len(PeerKeys) : PeerKeys[i] \in PlainKeys
    <3>1. Len(PeerKeys) = 8
      BY WrittenKeys
    <3>2. \A i \in 1..Len(PeerKeys) : PeerKeys[i] \in PlainKeys
      BY <1>1
    <3>3. QED
      BY <3>1, <3>2
  <2>2. 8 \in 1..8 /\ 7 \in 1..8 /\ 7 + 1 = 8 /\ 7 \in 1..(8 - 1)
    OBVIOUS
  <2>3. QED
    BY <2>1, <2>2
<1>3. FieldLines(fields, PeerKeys) = a \o b
  <2>1. LinesTo(fields, PeerKeys, 7 + 1) = LinesTo(fields, PeerKeys, 7) \o KeyLines(fields, PeerKeys[7 + 1])
    BY <1>1, <1>2, LinesToUnfolds
  <2>2. FieldLines(fields, PeerKeys) = LinesTo(fields, PeerKeys, 8)
    BY <1>1, <1>2, LinesToUnfolds
  <2>3. QED
    BY <1>2, <2>1, <2>2
<1>4. Shows(a, OfKeys(fields, PeerKeys, 7))
  BY <1>1, <1>2, LinesToShow
<1>5. Shows(b, OfKey(fields, PeerKeys[8]))
  BY <1>1, <1>2, KeyLinesShow
<1>6. /\ a \in Seq(ToldLine) /\ b \in Seq(ToldLine)
      /\ Len(a) \in Nat /\ Len(b) \in Nat /\ Len(a \o b) = Len(a) + Len(b)
      /\ \A i \in 1..Len(a) : (a \o b)[i] = a[i]
      /\ \A i \in 1..Len(b) : (a \o b)[Len(a) + i] = b[i]
  BY <1>4, <1>5 DEF Shows
<1> HIDE DEF a, b
<1>7. ASSUME NEW n \in 1..Len(a \o b), (a \o b)[n].key = "last_handshake_time_nsec"
      PROVE  \E i \in 1..(n - 1) : (a \o b)[i].key = "last_handshake_time_sec"
  <2>1. n > Len(a)
    <3> SUFFICES ASSUME n \in 1..Len(a) PROVE FALSE
      BY <1>6
    <3>1. Pair(a[n]) \in OfKeys(fields, PeerKeys, 7) /\ Pair(a[n])[1] = "last_handshake_time_nsec"
      BY <1>4, <1>6, <1>7 DEF Shows, PairsTo, Pair
    <3>2. QED
      BY <3>1, WrittenKeys DEF OfKeys
  <2>2. n - Len(a) \in 1..Len(b) /\ (a \o b)[n] = b[n - Len(a)]
    <3>1. n - Len(a) \in 1..Len(b) /\ Len(a) + (n - Len(a)) = n
      BY <1>6, <2>1
    <3>2. QED
      BY <1>6, <3>1
  <2>3. Has(fields, "last_handshake_time_nsec")
    <3>1. Pair(b[n - Len(a)]) \in OfKey(fields, PeerKeys[8])
      BY <1>5, <2>2 DEF Shows, PairsTo
    <3>2. QED
      BY <3>1, WrittenKeys DEF OfKey, Has
  <2>4. PICK f \in fields : f[1] = "last_handshake_time_sec"
    BY <2>3 DEF Has
  <2>5. f \in OfKeys(fields, PeerKeys, 7)
    BY <1>2, <2>4, WrittenKeys DEF OfKeys
  <2>6. PICK i \in 1..Len(a) : Pair(a[i]) = f
    BY <1>4, <2>5 DEF Shows, PairsTo
  <2>7. i \in 1..(n - 1) /\ (a \o b)[i] = a[i] /\ a[i].key = "last_handshake_time_sec"
    BY <1>6, <2>1, <2>4, <2>6 DEF Pair
  <2>8. QED
    BY <2>7
<1>8. QED
  BY <1>3, <1>7 DEF SecondsFirst

-----------------------------------------------------------------------------
\* The parser when the interface and the first n of the peers have been read.
AtPeers(s, n) ==
  [mode |-> IF n = 0 THEN "top" ELSE "peer", top |-> s.top, peers |-> SubSeq(s.peers, 1, n)]

LEMMA StateShape ==
  ASSUME NEW s \in States
  PROVE  /\ s.peers \in Seq([public_key : Nat, fields : SUBSET FieldsOf(PeerKeys)])
         /\ Len(s.peers) \in Nat /\ DOMAIN s.peers = 1..Len(s.peers)
         /\ \A n \in 1..Len(s.peers) :
              LET p == s.peers[n] IN
                /\ p \in [public_key : Nat, fields : SUBSET FieldsOf(PeerKeys)]
                /\ IsFiniteSet(p.fields) /\ OneValueEach(p.fields)
                /\ Has(p.fields, "last_handshake_time_nsec") => Has(p.fields, "last_handshake_time_sec")
<1>1. s.peers \in Seq([public_key : Nat, fields : SUBSET FieldsOf(PeerKeys)])
  BY StatesAssumption, Zenon
<1>2. \A i \in DOMAIN s.peers :
         /\ IsFiniteSet(s.peers[i].fields) /\ OneValueEach(s.peers[i].fields)
         /\ Has(s.peers[i].fields, "last_handshake_time_nsec")
              => Has(s.peers[i].fields, "last_handshake_time_sec")
  BY StatesAssumption, Zenon
<1>3. Len(s.peers) \in Nat /\ DOMAIN s.peers = 1..Len(s.peers)
  BY <1>1
<1>4. \A n \in 1..Len(s.peers) :
        s.peers[n] \in [public_key : Nat, fields : SUBSET FieldsOf(PeerKeys)]
  <2> DEFINE R == [public_key : Nat, fields : SUBSET FieldsOf(PeerKeys)]
  <2>1. s.peers \in Seq(R)
    BY <1>1
  <2> HIDE DEF R
  <2>2. \A n \in 1..Len(s.peers) : s.peers[n] \in R
    BY <2>1
  <2>3. QED
    BY <2>2 DEF R
<1>5. QED
  BY <1>1, <1>2, <1>3, <1>4, Zenon

LEMMA TopWritten ==
  ASSUME NEW s \in States
  PROVE  Leads(Start, FieldLines(s.top, TopKeys), AtPeers(s, 0)) /\ AtPeers(s, 0) \in Listening
<1> DEFINE ls == FieldLines(s.top, TopKeys)
<1>1. /\ s.top \subseteq FieldsOf(TopKeys) /\ IsFiniteSet(s.top) /\ OneValueEach(s.top)
      /\ \E f \in s.top : TRUE
      /\ s.peers \in Seq([public_key : Nat, fields : SUBSET FieldsOf(PeerKeys)])
  BY StatesAssumption DEF Has
<1>2. StateKeys \subseteq PlainKeys
  BY DEF PlainKeys
<1>3. /\ s.top \in ToldFields /\ ls \in Seq(ToldOf(s.top, StateKeys)) /\ Shows(ls, s.top)
  BY <1>1, <1>2, WrittenKeys, FieldLinesShow
<1> HIDE DEF ls
<1>4. Leads(Start, ls, TopAfter(ls, Len(ls)))
  BY <1>1, <1>3, TopLeads
<1>5. Len(ls) # 0
  BY <1>1, <1>3 DEF Shows, PairsTo
<1>6. SubSeq(s.peers, 1, 0) = << >>
  BY <1>1
<1>7. TopAfter(ls, Len(ls)) = AtPeers(s, 0)
  BY <1>3, <1>5, <1>6 DEF TopAfter, AtPeers, Shows
<1>8. AtPeers(s, 0) \in Listening
  BY <1>3, <1>6 DEF AtPeers, Listening
<1>9. QED
  BY <1>4, <1>7, <1>8 DEF ls

LEMMA PeerWritten ==
  ASSUME NEW s \in States, NEW n \in 1..Len(s.peers), AtPeers(s, n - 1) \in Listening
  PROVE  /\ Leads(AtPeers(s, n - 1), PeerBlock(s.peers[n]), AtPeers(s, n))
         /\ AtPeers(s, n) \in Listening
<1> DEFINE p == s.peers[n]
           q == AtPeers(s, n - 1)
           ls == FieldLines(p.fields, PeerKeys)
<1>1. /\ s.peers \in Seq([public_key : Nat, fields : SUBSET FieldsOf(PeerKeys)])
      /\ Len(s.peers) \in Nat /\ DOMAIN s.peers = 1..Len(s.peers)
  BY StateShape
<1>2. /\ p \in [public_key : Nat, fields : SUBSET FieldsOf(PeerKeys)]
      /\ IsFiniteSet(p.fields) /\ OneValueEach(p.fields)
      /\ Has(p.fields, "last_handshake_time_nsec") => Has(p.fields, "last_handshake_time_sec")
  BY StateShape, Zenon
<1>3. StatePeerKeys \subseteq PlainKeys
  BY DEF PlainKeys
<1>4. /\ p.fields \in ToldFields /\ ls \in Seq(ToldOf(p.fields, StatePeerKeys))
      /\ Shows(ls, p.fields) /\ SecondsFirst(ls)
  BY <1>2, <1>3, WrittenKeys, FieldLinesShow, TimeShown
<1>5. PeerAfter(q, p.public_key, ls, Len(ls)) = AtPeers(s, n)
  <2>1. [public_key |-> p.public_key, fields |-> PairsTo(ls, Len(ls))] = p
    BY <1>2, <1>4 DEF Shows
  <2>2. Append(SubSeq(s.peers, 1, n - 1), s.peers[n]) = SubSeq(s.peers, 1, n)
    BY <1>1
  <2> HIDE DEF ls
  <2>3. n # 0 /\ q.top = s.top /\ q.peers = SubSeq(s.peers, 1, n - 1)
    BY DEF AtPeers
  <2> HIDE DEF q
  <2>4. QED
    BY <2>1, <2>2, <2>3 DEF PeerAfter, AtPeers
<1> HIDE DEF p, ls
<1>6. /\ Leads(q, <<Line("public_key", p.public_key)>> \o ls, PeerAfter(q, p.public_key, ls, Len(ls)))
      /\ PeerAfter(q, p.public_key, ls, Len(ls)) \in Listening
  BY <1>2, <1>4, BlockLeads
<1>7. QED
  BY <1>5, <1>6 DEF PeerBlock, p, ls

PeersWritten(s) == FlattenSeq([i \in DOMAIN s.peers |-> PeerBlock(s.peers[i])])

LEMMA AllWritten ==
  ASSUME NEW s \in States
  PROVE  /\ Leads(Start, FieldLines(s.top, TopKeys) \o PeersWritten(s), AtPeers(s, Len(s.peers)))
         /\ AtPeers(s, Len(s.peers)) \in Listening /\ AtPeers(s, Len(s.peers)).peers = s.peers
<1> DEFINE ss == [i \in DOMAIN s.peers |-> PeerBlock(s.peers[i])]
<1>1. /\ s.peers \in Seq([public_key : Nat, fields : SUBSET FieldsOf(PeerKeys)])
      /\ Len(s.peers) \in Nat /\ DOMAIN s.peers = 1..Len(s.peers)
      /\ Len(ss) = Len(s.peers) /\ \A i \in 1..Len(ss) : ss[i] = PeerBlock(s.peers[i])
  <2>1. Len(s.peers) \in Nat /\ DOMAIN s.peers = 1..Len(s.peers)
    BY StateShape
  <2>2. ss \in [1..Len(s.peers) -> {ss[i] : i \in 1..Len(s.peers)}]
    BY <2>1
  <2>3. Len(ss) = Len(s.peers)
    BY <2>1
  <2>4. QED
    BY <2>1, <2>3, StateShape
<1>2. AtPeers(s, Len(s.peers)).peers = s.peers
  BY <1>1 DEF AtPeers
<1>3. CASE Len(s.peers) = 0
  <2>1. PeersWritten(s) = << >>
    <3>1. ss = << >>
      BY <1>1, <1>3
    <3>2. PeersWritten(s) = FlattenSeq(ss)
      BY Zenon DEF PeersWritten
    <3> HIDE DEF ss
    <3>3. QED
      BY <3>1, <3>2, <1>1, <1>3, Zenon DEF FlattenSeq
  <2>2. FieldLines(s.top, TopKeys) \o << >> = FieldLines(s.top, TopKeys)
    BY TopWritten DEF Leads
  <2>3. QED
    BY <1>2, <1>3, <2>1, <2>2, TopWritten
<1>4. CASE Len(s.peers) # 0
  <2> HIDE DEF ss
  <2> DEFINE T == {n \in Nat : n + 1 <= Len(ss) =>
                     /\ Leads(AtPeers(s, 0), Flat(ss)[n + 1], AtPeers(s, n + 1))
                     /\ AtPeers(s, n + 1) \in Listening}
  <2>1. 0 \in T
    <3>1. 1 \in 1..Len(s.peers) /\ 1 - 1 = 0 /\ 0 + 1 = 1 /\ Len(ss) \in Nat \ {0}
      BY <1>1, <1>4
    <3>2. AtPeers(s, 1 - 1) \in Listening
      BY <3>1, TopWritten
    <3>3. Leads(AtPeers(s, 1 - 1), PeerBlock(s.peers[1]), AtPeers(s, 1)) /\ AtPeers(s, 1) \in Listening
      BY <3>1, <3>2, PeerWritten
    <3>4. Flat(ss)[1] = PeerBlock(s.peers[1])
      BY <1>1, <3>1, FlatUnfolds
    <3>5. QED
      BY <3>1, <3>3, <3>4
  <2>2. ASSUME NEW n \in Nat, n \in T PROVE n + 1 \in T
    <3> SUFFICES ASSUME (n + 1) + 1 <= Len(ss)
                 PROVE  /\ Leads(AtPeers(s, 0), Flat(ss)[(n + 1) + 1], AtPeers(s, (n + 1) + 1))
                        /\ AtPeers(s, (n + 1) + 1) \in Listening
      OBVIOUS
    <3> DEFINE m == n + 1
    <3>1. m \in 1..(Len(ss) - 1) /\ Leads(AtPeers(s, 0), Flat(ss)[m], AtPeers(s, m))
            /\ AtPeers(s, m) \in Listening
      BY <1>1, <2>2
    <3> HIDE DEF m
    <3>2. m + 1 \in 1..Len(s.peers) /\ (m + 1) - 1 = m /\ ss[m + 1] = PeerBlock(s.peers[m + 1])
      <4>1. m + 1 \in 1..Len(ss) /\ (m + 1) - 1 = m
        BY <1>1, <3>1
      <4>2. QED
        BY <1>1, <4>1
    <3>3. Leads(AtPeers(s, m), ss[m + 1], AtPeers(s, m + 1)) /\ AtPeers(s, m + 1) \in Listening
      BY <3>1, <3>2, PeerWritten
    <3>4. Flat(ss)[m + 1] = Flat(ss)[m] \o ss[m + 1]
      BY <1>1, <1>4, <3>1, FlatUnfolds
    <3>5. Leads(AtPeers(s, 0), Flat(ss)[m + 1], AtPeers(s, m + 1))
      BY <3>1, <3>3, <3>4, LeadsConcat
    <3>6. QED
      BY <3>3, <3>5 DEF m
  <2>3. Nat \subseteq T
    <3> HIDE DEF T
    <3>1. QED
      BY <2>1, <2>2, Induct
  <2>4. Len(ss) - 1 \in T /\ (Len(ss) - 1) + 1 = Len(ss)
    <3>1. Len(ss) - 1 \in Nat /\ (Len(ss) - 1) + 1 = Len(ss)
      BY <1>1, <1>4
    <3> HIDE DEF T
    <3>2. QED
      BY <2>3, <3>1
  <2>5. Leads(AtPeers(s, 0), Flat(ss)[Len(ss)], AtPeers(s, Len(ss))) /\ AtPeers(s, Len(ss)) \in Listening
    BY <1>1, <2>4
  <2>6. PeersWritten(s) = Flat(ss)[Len(ss)]
    <3>1. PeersWritten(s) = FlattenSeq(ss)
      BY Zenon DEF PeersWritten, ss
    <3>2. QED
      BY <1>1, <1>4, <3>1, FlatUnfolds
  <2>7. QED
    BY <1>1, <1>2, <2>5, <2>6, TopWritten, LeadsConcat
<1>5. QED
  BY <1>3, <1>4

-----------------------------------------------------------------------------
\* The end of an answer, and the answer of a daemon that is about to end.
IsParser(q) == q = [mode |-> q.mode, top |-> q.top, peers |-> q.peers]

LEMMA InParser ==
  ASSUME NEW q, IsParser(q), NEW mode
  PROVE  In(q, mode) = [mode |-> mode, top |-> q.top, peers |-> q.peers]
BY DEF IsParser, In

LEMMA ParserMade ==
  ASSUME NEW m, NEW t, NEW p
  PROVE  IsParser([mode |-> m, top |-> t, peers |-> p])
BY DEF IsParser

LEMMA StillParser ==
  ASSUME NEW q, IsParser(q), NEW l
  PROVE  IsParser(StateLine(q, l))
<1>1. \A mode : IsParser(In(q, mode))
  BY InParser, ParserMade
<1>2. IsParser(NewPeer(q, l))
  <2>1. NewPeer(q, l) = In(q, "failed")
        \/ NewPeer(q, l) = [mode |-> "peer", top |-> q.top,
                            peers |-> Append(q.peers, [public_key |-> l.value, fields |-> {}])]
    <3> DEFINE r == [mode |-> "peer", top |-> q.top, peers |-> q.peers]
               x == [public_key |-> l.value, fields |-> {}]
               more == Append(q.peers, x)
    <3>1. In(q, "peer") = r
      BY InParser
    <3>2. r.peers = q.peers
      OBVIOUS
    <3>3. NewPeer(q, l) = In(q, "failed")
          \/ NewPeer(q, l) = [r EXCEPT !.peers = Append(r.peers, x)]
      BY <3>1, Zenon DEF NewPeer
    <3>4. [r EXCEPT !.peers = Append(r.peers, x)] = [r EXCEPT !.peers = more]
      BY <3>2, Zenon
    <3> HIDE DEF more
    <3>5. [r EXCEPT !.peers = more] = [mode |-> "peer", top |-> q.top, peers |-> more]
      OBVIOUS
    <3>6. QED
      BY <3>3, <3>4, <3>5 DEF more
  <2>2. QED
    BY <1>1, <2>1, ParserMade
<1>3. IsParser(TopLine(In(q, "top"), l))
  <2> DEFINE r == [mode |-> "top", top |-> q.top, peers |-> q.peers]
  <2>1. In(q, "top") = r
    BY InParser
  <2>2. TopLine(r, l) = In(r, "failed")
        \/ TopLine(r, l) = [mode |-> "top", top |-> Put(q.top, l), peers |-> q.peers]
    BY DEF TopLine
  <2>3. IsParser(In(r, "failed"))
    BY InParser, ParserMade
  <2>4. QED
    BY <2>1, <2>2, <2>3, ParserMade
<1>4. IsParser(PeerLine(q, l))
  <2>1. PeerLine(q, l) = In(q, "failed")
        \/ PeerLine(q, l) = [q EXCEPT !.peers = [q.peers EXCEPT ![Len(q.peers)].fields = Put(@, l)]]
    BY DEF PeerLine
  <2>2. IsParser([q EXCEPT !.peers = [q.peers EXCEPT ![Len(q.peers)].fields = Put(@, l)]])
    <3> DEFINE ps == [q.peers EXCEPT ![Len(q.peers)].fields = Put(@, l)]
    <3> HIDE DEF ps
    <3>1. IsParser([q EXCEPT !.peers = ps])
      BY DEF IsParser
    <3>2. QED
      BY <3>1 DEF ps
  <2>3. QED
    BY <1>1, <2>1, <2>2
<1>5. IsParser([In(q, "errno") EXCEPT !.top = {<<l.key, l.value>>}])
  <2>1. In(q, "errno") = [mode |-> "errno", top |-> q.top, peers |-> q.peers]
    BY InParser
  <2>2. QED
    BY <2>1 DEF IsParser
<1> DEFINE r == StateLine(q, l)
<1>6. \/ \E mode : r = In(q, mode)
      \/ r = NewPeer(q, l) \/ r = TopLine(In(q, "top"), l) \/ r = PeerLine(q, l)
      \/ r = [In(q, "errno") EXCEPT !.top = {<<l.key, l.value>>}]
  BY KeysApart DEF StateLine, PlainKeys
<1> HIDE DEF r
<1>7. IsParser(r)
  BY <1>1, <1>2, <1>3, <1>4, <1>5, <1>6
<1>8. QED
  BY <1>7 DEF r

LEMMA LeadsNowhere ==
  ASSUME NEW q, NEW r, Leads(q, << >>, r)
  PROVE  q = r
BY DEF Leads, LeadsBy

\* The errno line is the end, whatever is left of its value.
LEMMA EndRead ==
  ASSUME NEW q \in Listening, q.mode \in {"top", "peer"}, NEW v
  PROVE  StateLine(q, Line("errno", v)) = In(q, "done")
<1>1. Line("errno", v).key = "errno"
  BY DEF Line
<1>2. "errno" \notin PlainKeys /\ "errno" # NoKey
  BY KeysApart
<1>3. QED
  BY <1>1, <1>2 DEF StateLine, PlainKeys

LEMMA HeadOfConcat ==
  ASSUME NEW S, NEW a \in Seq(S), NEW b \in Seq(S)
  PROVE  /\ a # << >> => a \o b # << >> /\ Head(a \o b) = Head(a) /\ Tail(a \o b) = Tail(a) \o b
         /\ << >> \o b = b
<1>1. a # << >> => Len(a) # 0
  BY EmptySeq
<1>2. ASSUME Len(a) # 0
      PROVE  a \o b # << >> /\ Head(a \o b) = Head(a) /\ Tail(a \o b) = Tail(a) \o b
  <2>1. Len(a \o b) = Len(a) + Len(b) /\ Len(a) \in Nat /\ Len(b) \in Nat
    OBVIOUS
  <2>2. a \o b # << >> /\ Head(a \o b) = Head(a)
    BY <1>2, <2>1
  <2>3. Tail(a \o b) = Tail(a) \o b
    BY <1>2, <2>1
  <2>4. QED
    BY <2>2, <2>3
<1>3. << >> \o b = b
  OBVIOUS
<1>4. QED
  BY <1>1, <1>2, <1>3

Exact(c, q) == q.top = state[c].top /\ q.peers = state[c].peers

\* What is left of the answer shows what the client does not know yet.
StateComes(c, ls, q) ==
  /\ Leads(reader[c], ls, q) /\ out[c] = ls \o Errno(0)
  /\ q \in Listening /\ q.mode \in {"top", "peer"} /\ Exact(c, q)

\* How far the client has come with the answer to a get command.
GetInv(c) ==
  /\ phase[c] \in {"locking", "applying"} => req[c][1].key # "get=1"
  /\ phase[c] \in {"answering", "closed"} /\ req[c][1].key = "get=1" =>
       \/ phase[c] = "closed" /\ result[c] = None
       \/ /\ result[c] = None /\ IsParser(reader[c])
          /\ \/ \E ls, q : StateComes(c, ls, q)
             \/ reader[c] = Start /\ out[c] = Errno(6)
       \/ /\ result[c] = reader[c] /\ IsParser(reader[c]) /\ Over(reader[c])
          /\ reader[c].mode = "done" => Exact(c, reader[c])

Getting == OnConns(state) /\ \A c \in Conns : GetInv(c)

LEMMA GetInit == Init => Getting
BY DEF Init, Getting, GetInv, OnConns

LEMMA StartIsParser == IsParser(Start)
BY DEF Start, IsParser

LEMMA GetUpgrade ==
  ASSUME Shape, OnConns(state), NEW c \in Conns, ConnInv(c), Upgrade(c)
  PROVE  GetInv(c)'
<1>1. phase[c] = "parsed" /\ reader[c] = Start /\ result[c] = None /\ UNCHANGED <<req, reader, result>>
  BY DEF Upgrade, ConnInv, AnswerInv
<1>2. CASE Answer(c, Errno(6))
  <2>1. phase'[c] = "answering" /\ out'[c] = Errno(6)
    BY <1>2 DEF Answer, GoTo, Shape, OnConns
  <2>2. QED
    BY <1>1, <2>1, StartIsParser DEF GetInv
<1>3. ASSUME NEW s \in States, state' = [state EXCEPT ![c] = s], Answer(c, Written(s))
      PROVE  GetInv(c)'
  <2>1. phase'[c] = "answering" /\ out'[c] = Written(s) /\ state'[c] = s
    BY <1>3 DEF Answer, GoTo, Shape, OnConns
  <2> DEFINE ls == FieldLines(s.top, TopKeys) \o PeersWritten(s)
             q == AtPeers(s, Len(s.peers))
  <2>2. Leads(Start, ls, q) /\ q \in Listening /\ q.peers = s.peers
    BY AllWritten
  <2>3. q.mode \in {"top", "peer"} /\ q.top = s.top
    BY DEF AtPeers
  <2>4. Written(s) = ls \o Errno(0)
    BY Zenon DEF Written, PeersWritten
  <2> HIDE DEF ls, q
  <2>5. StateComes(c, ls, q)'
    BY <1>1, <2>1, <2>2, <2>3, <2>4 DEF StateComes, Exact
  <2>6. \E a, b : StateComes(c, a, b)'
    BY <2>5
  <2>7. QED
    BY <1>1, <2>1, <2>6, StartIsParser DEF GetInv
<1>4. CASE req[c][1].key = "set=1" /\ GoTo(c, "locking")
  <2>1. phase'[c] = "locking"
    BY <1>4 DEF GoTo, Shape, OnConns
  <2>2. QED
    BY <1>1, <1>4, <2>1 DEF GetInv
<1>5. QED
  BY <1>2, <1>3, <1>4 DEF Upgrade

\* The last two lines of an answer, before and after the first of them is read.
LEMMA AnswerEnds ==
  ASSUME NEW n \in Nat
  PROVE  /\ Errno(n) # << >> /\ Head(Errno(n)) = Line("errno", n)
         /\ Errno(n) \in Seq(ToldLine \cup {Line("errno", n), Empty})
BY DEF Errno

\* What the client does not know yet, after a line or a piece of one.
LEMMA ComesOn ==
  ASSUME NEW c \in Conns, IsParser(reader[c]), NEW ls, NEW q, StateComes(c, ls, q)
  PROVE  LET l == Head(out[c])
             r == StateLine(reader[c], l)
         IN /\ ~Over(reader[c]) /\ out[c] # << >>
            /\ \/ ~Over(r) /\ Leads(r, Tail(ls), q) /\ Tail(out[c]) = Tail(ls) \o Errno(0)
               \/ Over(r) /\ Exact(c, r)
            /\ \A k \in Cut(l) :
                 LET e == StateLine(reader[c], k) IN e.mode = "done" => Exact(c, e)
<1> DEFINE S == ToldLine \cup {Line("errno", 0), Empty}
<1>1. ls \in Seq(S) /\ Errno(0) \in Seq(S) /\ Errno(0) # << >> /\ Head(Errno(0)) = Line("errno", 0)
  BY AnswerEnds, SeqOfMore DEF StateComes, Leads
<1> HIDE DEF S
<1>2. /\ ls # << >> => /\ out[c] # << >> /\ Head(out[c]) = Head(ls)
                       /\ Tail(out[c]) = Tail(ls) \o Errno(0)
      /\ ls = << >> => out[c] = Errno(0)
  <2> DEFINE e == Errno(0)
  <2>1. out[c] = ls \o e
    BY DEF StateComes
  <2>2. ls \in Seq(S) /\ e \in Seq(S)
    BY <1>1
  <2> HIDE DEF e
  <2>3. /\ ls # << >> => /\ ls \o e # << >> /\ Head(ls \o e) = Head(ls)
                          /\ Tail(ls \o e) = Tail(ls) \o e
        /\ << >> \o e = e
    BY <2>2, HeadOfConcat, Zenon
  <2>4. QED
    BY <2>1, <2>3, Zenon DEF e
<1> DEFINE l == Head(out[c])
           r == StateLine(reader[c], l)
<1>3. CASE ls # << >>
  <2>1. Good(reader[c], Head(ls), StateLine(reader[c], Head(ls)))
    BY <1>3, LeadsHead DEF StateComes
  <2>2. Leads(StateLine(reader[c], Head(ls)), Tail(ls), q)
    BY <1>3, LeadsHead DEF StateComes
  <2>3. l = Head(ls) /\ out[c] # << >> /\ Tail(out[c]) = Tail(ls) \o Errno(0)
    BY <1>2, <1>3
  <2> HIDE DEF l
  <2>4. ~Over(reader[c]) /\ ~Over(r) /\ \A k \in Cut(l) : StateLine(reader[c], k).mode # "done"
    BY <2>1, <2>3 DEF Good
  <2>5. QED
    BY <2>2, <2>3, <2>4 DEF l
<1>4. CASE ls = << >>
  <2>1. reader[c] = q /\ q \in Listening /\ q.mode \in {"top", "peer"} /\ Exact(c, q)
    BY <1>4, LeadsNowhere DEF StateComes
  <2>2. l = Line("errno", 0) /\ out[c] # << >>
    BY <1>1, <1>2, <1>4
  <2> HIDE DEF l
  <2>3. In(q, "done") = [mode |-> "done", top |-> q.top, peers |-> q.peers]
    BY <2>1, InParser
  <2>4. r = In(q, "done")
    BY <2>1, <2>2, EndRead
  <2>5. Over(r) /\ Exact(c, r)
    BY <2>1, <2>3, <2>4 DEF Over, Exact
  <2>6. ASSUME NEW k \in Cut(l), StateLine(reader[c], k).mode = "done"
        PROVE  Exact(c, StateLine(reader[c], k))
    <3>1. l.key = "errno" /\ l.value = 0
      BY <2>2 DEF Line
    <3>2. k \in {Line("unkeyed", Bad), Line("errno", Bad), l}
      BY <3>1 DEF Cut
    <3>3. k # Line("unkeyed", Bad)
      BY <2>1, <2>6, UnkeyedFails DEF Listening
    <3>4. StateLine(q, Line("errno", Bad)) = In(q, "done")
      BY <2>1, EndRead
    <3>5. StateLine(reader[c], k) = In(q, "done")
      BY <2>1, <2>4, <3>2, <3>3, <3>4
    <3>6. QED
      BY <2>1, <2>3, <3>5 DEF Exact
  <2>7. ~Over(reader[c])
    BY <2>1 DEF Over
  <2>8. QED
    BY <2>2, <2>5, <2>6, <2>7 DEF l
<1>5. QED
  BY <1>3, <1>4

\* A daemon without a state answers with an error, of which a piece is an error too.
LEMMA ErrorComes ==
  ASSUME NEW n \in Nat, NEW l, l \in Cut(Line("errno", n)) \/ l = Line("errno", n)
  PROVE  /\ IsParser(StateLine(Start, l)) /\ Over(StateLine(Start, l))
         /\ StateLine(Start, l).mode # "done"
<1>1. Line("errno", n).key = "errno"
  BY DEF Line
<1>2. l \in {Line("unkeyed", Bad), Line("errno", Bad), Line("errno", n), Line("errno", Shorter)}
  BY <1>1 DEF Cut
<1>3. ASSUME NEW m \in Nat, l = Line("errno", m)
      PROVE  Over(StateLine(Start, l)) /\ StateLine(Start, l).mode # "done"
  BY <1>3, ReadsErrno DEF ReadErrno, Over
<1>4. ASSUME l = Line("unkeyed", Bad) \/ l = Line("errno", Bad)
      PROVE  Over(StateLine(Start, l)) /\ StateLine(Start, l).mode # "done"
  <2>1. StateLine(Start, l) \in Broken /\ Over(StateLine(Start, l))
    BY <1>4, ReadsBroken
  <2>2. QED
    BY <2>1 DEF Broken
<1>5. QED
  BY <1>2, <1>3, <1>4, ShorterIsNat, StartIsParser, StillParser

LEMMA GetReads ==
  ASSUME Shape, NEW c \in Conns, ConnInv(c), GetInv(c), ClientReads(c), UNCHANGED state
  PROVE  GetInv(c)'
<1> DEFINE l == Head(out[c])
           r == StateLine(reader[c], l)
<1>1. /\ phase[c] = "answering" /\ result[c] = None /\ out[c] # << >> /\ out'[c] = Tail(out[c])
      /\ reader'[c] = r /\ result'[c] = (IF Over(r) THEN r ELSE result[c])
      /\ UNCHANGED <<req, phase>>
  BY DEF ClientReads, Shape, OnConns
<1> SUFFICES ASSUME req[c][1].key = "get=1"
             PROVE  \/ /\ result'[c] = None /\ IsParser(r)
                       /\ \E ls, q : StateComes(c, ls, q)'
                    \/ /\ result'[c] = r /\ IsParser(r) /\ Over(r)
                       /\ r.mode = "done" => Exact(c, r)
  <2> HIDE DEF r, l
  <2>1. QED
    BY <1>1 DEF GetInv, Exact
<1>2. IsParser(reader[c])
  BY <1>1 DEF GetInv
<1>3. IsParser(r)
  BY <1>2, StillParser
<1>4. ASSUME NEW ls, NEW q, StateComes(c, ls, q)
      PROVE  \/ result'[c] = None /\ StateComes(c, Tail(ls), q)'
             \/ result'[c] = r /\ Over(r) /\ Exact(c, r)
  <2>1. \/ ~Over(r) /\ Leads(r, Tail(ls), q) /\ Tail(out[c]) = Tail(ls) \o Errno(0)
        \/ Over(r) /\ Exact(c, r)
    BY <1>2, <1>4, ComesOn, Zenon
  <2> HIDE DEF r
  <2>2. QED
    BY <1>1, <1>4, <2>1 DEF StateComes, Exact
<1>5. CASE reader[c] = Start /\ out[c] = Errno(6)
  <2>1. l = Line("errno", 6)
    BY <1>5, AnswerEnds
  <2>2. Over(r) /\ r.mode # "done"
    BY <1>5, <2>1, ErrorComes
  <2> HIDE DEF r
  <2>3. QED
    BY <1>1, <1>3, <2>2
<1>6. CASE result[c] = reader[c] /\ Over(reader[c])
  <2>1. r = In(reader[c], "failed")
    BY <1>6 DEF Over, StateLine
  <2>2. r.mode = "failed"
    BY <1>2, <2>1, InParser
  <2> HIDE DEF r
  <2>3. QED
    BY <1>1, <1>3, <2>2 DEF Over
<1> HIDE DEF r
<1>7. QED
  BY <1>1, <1>3, <1>4, <1>5, <1>6 DEF GetInv

LEMMA GetBreaks ==
  ASSUME Shape, NEW c \in Conns, ConnInv(c), GetInv(c), Breaks(c), UNCHANGED state
  PROVE  GetInv(c)'
<1> DEFINE At(l) == IF l = None THEN reader[c] ELSE StateLine(reader[c], l)
           Ending(l) == IF Over(At(l)) THEN At(l) ELSE In(At(l), "failed")
<1>1. PICK l \in {None} \cup (IF out[c] = << >> THEN {} ELSE Cut(Head(out[c]))) :
        /\ phase[c] = "answering" /\ result[c] = None
        /\ reader'[c] = Ending(l) /\ result'[c] = Ending(l)
        /\ UNCHANGED <<req, phase>>
  BY DEF Breaks, Shape, OnConns
<1> DEFINE r == Ending(l)
           a == At(l)
<1> SUFFICES ASSUME req[c][1].key = "get=1"
             PROVE  IsParser(r) /\ Over(r) /\ (r.mode = "done" => Exact(c, r))
  <2> HIDE DEF Ending
  <2>1. QED
    BY <1>1 DEF GetInv, Exact
<1>2. IsParser(reader[c])
  BY <1>1 DEF GetInv
<1>3. IsParser(a)
  BY <1>2, StillParser
<1>4. a.mode = "done" => Exact(c, a)
  <2>1. ASSUME NEW ls, NEW q, StateComes(c, ls, q) PROVE a.mode = "done" => Exact(c, a)
    <3>1. /\ ~Over(reader[c]) /\ out[c] # << >>
          /\ \A k \in Cut(Head(out[c])) :
               StateLine(reader[c], k).mode = "done" => Exact(c, StateLine(reader[c], k))
      BY <1>2, <2>1, ComesOn, Zenon
    <3>2. CASE l = None
      BY <3>1, <3>2 DEF Over
    <3>3. CASE l # None
      BY <1>1, <3>1, <3>3
    <3>4. QED
      BY <3>2, <3>3
  <2>2. CASE reader[c] = Start /\ out[c] = Errno(6)
    <3>1. CASE l = None
      BY <2>2, <3>1 DEF Start
    <3>2. CASE l # None
      <4>1. l \in Cut(Line("errno", 6))
        BY <1>1, <2>2, <3>2, AnswerEnds
      <4>2. QED
        BY <2>2, <3>2, <4>1, ErrorComes
    <3>3. QED
      BY <3>1, <3>2
  <2>3. CASE Over(reader[c]) /\ (reader[c].mode = "done" => Exact(c, reader[c]))
    <3>1. CASE l = None
      BY <2>3, <3>1
    <3>2. CASE l # None
      <4>1. a = In(reader[c], "failed")
        BY <2>3, <3>2 DEF Over, StateLine
      <4>2. a.mode = "failed"
        BY <1>2, <4>1, InParser
      <4>3. QED
        BY <4>2
    <3>3. QED
      BY <3>1, <3>2
  <2> HIDE DEF a
  <2>4. QED
    BY <1>1, <2>1, <2>2, <2>3 DEF GetInv
<1> HIDE DEF a
<1>5. r = IF Over(a) THEN a ELSE In(a, "failed")
  BY DEF a
<1>6. In(a, "failed") = [mode |-> "failed", top |-> a.top, peers |-> a.peers]
  BY <1>3, InParser
<1> HIDE DEF r
<1>7. QED
  BY <1>3, <1>4, <1>5, <1>6, ParserMade DEF Over

\* The other steps of a connection.
LEMMA GetOther ==
  ASSUME Shape, NEW c \in Conns, ConnInv(c), GetInv(c), UNCHANGED state,
         \/ ReadLine(c) \/ HangUp(c) \/ TakeLock(c) \/ Apply(c) \/ ApplyFails(c)
         \/ Applied(c) \/ Close(c) \/ \E r \in Requests : Connect(c, r)
  PROVE  GetInv(c)'
<1> USE DEF Shape, OnConns, GoTo
<1>1. ASSUME ReadLine(c) \/ HangUp(c) PROVE GetInv(c)'
  <2>1. PICK q : Parsed(c, q)
    BY <1>1 DEF ReadLine, HangUp
  <2>2. phase[c] = "reading" /\ phase'[c] \in {"parsed", "closed", "reading"}
    BY <1>1, <2>1 DEF ReadLine, HangUp, Parsed
  <2>3. result'[c] = None
    BY <1>1, <2>2 DEF ReadLine, HangUp, ConnInv, AnswerInv
  <2>4. QED
    BY <2>2, <2>3 DEF GetInv
<1>2. CASE TakeLock(c)
  BY <1>2 DEF TakeLock, GetInv
<1>3. CASE Apply(c)
  BY <1>3 DEF Apply, GetInv
<1>4. CASE ApplyFails(c) \/ Applied(c)
  BY <1>4 DEF ApplyFails, Applied, Answer, GetInv
<1>5. CASE Close(c)
  <2>1. /\ phase[c] = "answering" /\ phase'[c] = "closed" /\ result[c] # None
        /\ UNCHANGED <<req, reader, result>>
    BY <1>5 DEF Close
  <2>2. QED
    BY <2>1 DEF GetInv, Exact
<1>6. ASSUME NEW r \in Requests, Connect(c, r) PROVE GetInv(c)'
  BY <1>6 DEF Connect, GetInv
<1>7. QED
  BY <1>1, <1>2, <1>3, <1>4, <1>5, <1>6

LEMMA GetNext == IpcInv /\ Getting /\ [Next]_vars => Getting'
<1> SUFFICES ASSUME IpcInv, Getting, [Next]_vars PROVE Getting'
  OBVIOUS
<1>1. ASSUME NEW c, GetInv(c), Untouched(c), state'[c] = state[c] PROVE GetInv(c)'
  BY <1>1 DEF GetInv, Untouched, StateComes, Exact
<1>2. ASSUME NEW c \in Conns, StepOf(c) PROVE Getting'
  <2>1. Shape /\ ConnInv(c) /\ GetInv(c) /\ OnConns(state)
    BY DEF IpcInv, Getting
  <2>2. CASE Upgrade(c)
    <3>1. OnConns(state)' /\ \A d \in Conns \ {c} : state'[d] = state[d]
      BY <2>1, <2>2 DEF Upgrade, OnConns
    <3>2. GetInv(c)'
      BY <2>1, <2>2, GetUpgrade
    <3>3. ASSUME NEW d \in Conns \ {c} PROVE GetInv(d)'
      BY <1>1, <1>2, <2>1, <3>1, OtherConns DEF Elsewhere, Getting
    <3>4. QED
      BY <3>1, <3>2, <3>3 DEF Getting
  <2>3. CASE ~Upgrade(c)
    <3>1. UNCHANGED state
      BY <1>2, <2>3 DEF StepOf, ReadLine, HangUp, TakeLock, Apply, ApplyFails, Applied,
         ClientReads, Close, Breaks, Connect
    <3>2. GetInv(c)'
      BY <1>2, <2>1, <2>3, <3>1, GetReads, GetBreaks, GetOther, Zenon DEF StepOf
    <3>3. ASSUME NEW d \in Conns \ {c} PROVE GetInv(d)'
      BY <1>1, <1>2, <2>1, <3>1, OtherConns DEF Elsewhere, Getting
    <3>4. QED
      BY <2>1, <3>1, <3>2, <3>3 DEF Getting, OnConns
  <2>4. QED
    BY <2>2, <2>3
<1>3. CASE Dropped \/ UNCHANGED vars
  <2>1. UNCHANGED <<req, phase, out, reader, result, state>>
    BY <1>3 DEF Dropped, vars
  <2>2. ASSUME NEW c \in Conns PROVE GetInv(c)'
    BY <2>1 DEF Getting, GetInv, StateComes, Exact
  <2>3. QED
    BY <2>1, <2>2 DEF Getting, OnConns
<1>4. QED
  BY <1>2, <1>3, Zenon DEF Next, Serve, StepOf

\* What `titun show` takes for the state of the interface is all of what get_state
\* returned, for any state and wherever the answer is cut (write_wg_state,
\* parse_wg_state_out, parse_peer_state_out).
THEOREM ShownIsExact == Spec => []StateExact
<1>1. IpcInv /\ Getting => StateExact
  <2> SUFFICES ASSUME IpcInv, Getting, NEW c \in Conns,
                      result[c] # None, result[c].mode = "done", req[c][1].key = "get=1"
               PROVE  Exact(c, result[c])
    BY DEF StateExact, Exact
  <2>1. phase[c] \in {"answering", "closed"}
    BY DEF IpcInv, ConnInv, AnswerInv, RequestInv, Phases
  <2>2. QED
    BY <2>1 DEF Getting, GetInv
<1>2. QED
  BY <1>1, IpcInit, IpcNext, GetInit, GetNext, PTL DEF Spec

-----------------------------------------------------------------------------
\* The socket of the interface.
LEMMA One ==
  ASSUME NEW n \in Nat \ {0}, n <= 1
  PROVE  n = 1
  OBVIOUS

\* A channel of one socket, or of none.
LEMMA OneInChannel ==
  ASSUME NEW S, NEW q \in Seq(S), Len(q) <= 1, q # << >>
  PROVE  /\ DOMAIN q = {1} /\ Head(q) = q[1] /\ Head(q) \in S
         /\ Tail(q) = << >>
<1>1. Len(q) = 1
  <2>1. Len(q) \in Nat \ {0}
    BY EmptySeq, Zenon
  <2>2. QED
    BY <2>1, One, Zenon
<1>2. DOMAIN q = {1} /\ Head(q) = q[1] /\ q[1] \in S
  BY <1>1
<1>3. Tail(q) \in Seq(S) /\ Len(Tail(q)) = 0
  BY <1>1
<1>4. QED
  BY <1>2, <1>3

LEMMA Sent ==
  ASSUME NEW S, NEW s \in S
  PROVE  /\ Append(<< >>, s) \in Seq(S) /\ Append(<< >>, s) # << >>
         /\ Len(Append(<< >>, s)) = 1 /\ Head(Append(<< >>, s)) = s
  OBVIOUS

LEMMA SocketTypeInit == SocketInit => SocketTypeOK
<1> SUFFICES ASSUME SocketInit PROVE SocketTypeOK
  OBVIOUS
<1> USE DEF SocketInit
<1>1. channel \in Seq(Sockets) /\ Len(channel) <= 1
  OBVIOUS
<1>2. rx \in RxStates /\ cfg \in CfgStates
  BY DEF RxStates, CfgStates
<1>3. portOf \in [Sockets -> Ports] /\ mark \in [Sockets -> Marks]
  BY SocketAssumption
<1>4. QED
  BY <1>1, <1>2, <1>3 DEF SocketTypeOK

LEMMA SocketTypeNext == SocketTypeOK /\ [SocketNext]_socketVars => SocketTypeOK'
<1> SUFFICES ASSUME SocketTypeOK, [SocketNext]_socketVars PROVE SocketTypeOK'
  OBVIOUS
<1> USE DEF SocketTypeOK, RxStates, CfgStates, CfgIdle
<1>1. ASSUME NEW p \in Ports \cup {AnyPort}, SetPort(p) PROVE SocketTypeOK'
  <2>1. PICK s \in Sockets \ Open, q \in Ports :
          /\ portOf' = [portOf EXCEPT ![s] = q]
          /\ mark' = [mark EXCEPT ![s] = fwmark]
          /\ cfg' = [op |-> "prepared", socket |-> s, port |-> q]
    BY <1>1 DEF SetPort, Assigned
  <2>2. QED
    BY <1>1, <2>1 DEF SetPort
<1>2. CASE SetPortLooks
  BY <1>2 DEF SetPortLooks, HowToDeliver
<1>3. CASE SetPortSends
  BY <1>3, Sent DEF SetPortSends, HasRoom
<1>4. CASE SetPortStores
  BY <1>4 DEF SetPortStores
<1>5. CASE SetPortEnds
  BY <1>5 DEF SetPortEnds
<1>6. ASSUME NEW m \in Marks, SetFwmark(m) PROVE SocketTypeOK'
  BY <1>6 DEF SetFwmark
<1>7. CASE RxStarts
  BY <1>7 DEF RxStarts
<1>8. CASE RxWaits
  BY <1>8 DEF RxWaits, OverlookedEnds
<1>9. CASE RxReceives
  BY <1>9 DEF RxReceives, OverlookedEnds
<1>10. CASE RxReplaces
  BY <1>10, OneInChannel DEF RxReplaces, OverlookedEnds
<1>11. CASE TxTakes
  BY <1>11 DEF TxTakes
<1>12. CASE TxSends
  BY <1>12 DEF TxSends
<1>13. CASE UNCHANGED socketVars
  BY <1>13 DEF socketVars
<1>14. QED
  BY <1>1, <1>2, <1>3, <1>4, <1>5, <1>6, <1>7, <1>8, <1>9, <1>10, <1>11, <1>12, <1>13
  DEF SocketNext, CfgStep

\* The variables of WgState.socket, its sender and its tasks have the values the
\* code may give them (state.rs).
THEOREM SocketTypeCorrect == SocketSpec => []SocketTypeOK
BY SocketTypeInit, SocketTypeNext, PTL DEF SocketSpec

-----------------------------------------------------------------------------
\* Who looks for a sender sees it as soon as the receiving task has made it.
SenderInv ==
  /\ sender <=> rx.phase # "spawned"
  /\ cfg.op = "send" => sender
  /\ ~sender \/ cfg.op = "store" => channel = << >>

\* The task waits on the socket in place, unless a command that saw no sender
\* puts another one there.
WaitingInv ==
  /\ cfg.op = "store" /\ sender => overlooked
  /\ rx.phase = "waiting" /\ ~overlooked => rx.socket = socket

\* The newest socket, or the one in the hands of the command, has the port.
PortInv ==
  /\ cfg = CfgIdle => portOf[Newest] = port
  /\ cfg.op = "finish" => portOf[Newest] = cfg.port
  /\ cfg.op \in {"prepared", "send", "store"} => portOf[cfg.socket] = cfg.port

ListenInv == SenderInv /\ WaitingInv /\ PortInv

LEMMA NewestOpen == SocketTypeOK => Newest \in Open /\ Newest \in Sockets
BY OneInChannel DEF SocketTypeOK, Newest, Open

LEMMA ListenInit == SocketInit => ListenInv
BY DEF SocketInit, ListenInv, SenderInv, WaitingInv, PortInv, Newest, CfgIdle

LEMMA SenderNext == SocketTypeOK /\ SenderInv /\ [SocketNext]_socketVars => SenderInv'
<1> SUFFICES ASSUME SocketTypeOK, SenderInv, [SocketNext]_socketVars PROVE SenderInv'
  OBVIOUS
<1> USE DEF SocketTypeOK, SenderInv, RxStates, CfgStates, CfgIdle
<1>1. ASSUME NEW p \in Ports \cup {AnyPort}, SetPort(p) PROVE SenderInv'
  BY <1>1 DEF SetPort
<1>2. CASE CfgStep
  BY <1>2 DEF CfgStep, SetPortLooks, HowToDeliver, SetPortSends, SetPortStores, SetPortEnds
<1>3. ASSUME NEW m \in Marks, SetFwmark(m) PROVE SenderInv'
  BY <1>3 DEF SetFwmark
<1>4. CASE RxStarts \/ RxWaits \/ RxReceives
  BY <1>4 DEF RxStarts, RxWaits, RxReceives
<1>5. CASE RxReplaces
  BY <1>5, OneInChannel DEF RxReplaces
<1>6. CASE TxTakes \/ TxSends \/ UNCHANGED socketVars
  BY <1>6 DEF TxTakes, TxSends, socketVars
<1>7. QED
  BY <1>1, <1>2, <1>3, <1>4, <1>5, <1>6 DEF SocketNext

LEMMA WaitingNext == SocketTypeOK /\ SenderInv /\ WaitingInv /\ [SocketNext]_socketVars => WaitingInv'
<1> SUFFICES ASSUME SocketTypeOK, SenderInv, WaitingInv, [SocketNext]_socketVars PROVE WaitingInv'
  OBVIOUS
<1> USE DEF SocketTypeOK, SenderInv, WaitingInv, RxStates, CfgStates, CfgIdle
<1>1. ASSUME NEW p \in Ports \cup {AnyPort}, SetPort(p) PROVE WaitingInv'
  BY <1>1 DEF SetPort
<1>2. CASE CfgStep
  BY <1>2 DEF CfgStep, SetPortLooks, HowToDeliver, SetPortSends, SetPortStores, SetPortEnds
<1>3. ASSUME NEW m \in Marks, SetFwmark(m) PROVE WaitingInv'
  BY <1>3 DEF SetFwmark
<1>4. CASE RxStarts
  BY <1>4 DEF RxStarts
<1>5. CASE RxWaits \/ RxReceives \/ RxReplaces
  BY <1>5 DEF RxWaits, RxReceives, RxReplaces, OverlookedEnds
<1>6. CASE TxTakes \/ TxSends \/ UNCHANGED socketVars
  BY <1>6 DEF TxTakes, TxSends, socketVars
<1>7. QED
  BY <1>1, <1>2, <1>3, <1>4, <1>5, <1>6 DEF SocketNext

LEMMA PortNext == SocketTypeOK /\ SenderInv /\ PortInv /\ [SocketNext]_socketVars => PortInv'
<1> SUFFICES ASSUME SocketTypeOK, SenderInv, PortInv, [SocketNext]_socketVars PROVE PortInv'
  OBVIOUS
<1> USE DEF SocketTypeOK, SenderInv, PortInv, CfgStates, CfgIdle, Newest
<1>1. ASSUME NEW p \in Ports \cup {AnyPort}, SetPort(p) PROVE PortInv'
  <2>1. PICK s \in Sockets \ Open, q \in Ports :
          /\ portOf' = [portOf EXCEPT ![s] = q]
          /\ cfg' = [op |-> "prepared", socket |-> s, port |-> q]
    BY <1>1 DEF SetPort, Assigned
  <2>2. portOf'[s] = q
    BY <2>1
  <2>3. QED
    BY <2>1, <2>2
<1>2. CASE SetPortLooks
  BY <1>2 DEF SetPortLooks, HowToDeliver
<1>3. CASE SetPortSends
  BY <1>3, Sent DEF SetPortSends, HasRoom
<1>4. CASE SetPortStores
  BY <1>4 DEF SetPortStores
<1>5. CASE SetPortEnds
  BY <1>5 DEF SetPortEnds
<1>6. ASSUME NEW m \in Marks, SetFwmark(m) PROVE PortInv'
  BY <1>6 DEF SetFwmark
<1>7. CASE RxStarts \/ RxWaits \/ RxReceives
  BY <1>7 DEF RxStarts, RxWaits, RxReceives
<1>8. CASE RxReplaces
  <2>1. Newest' = Newest
    BY <1>8, OneInChannel DEF RxReplaces
  <2>2. QED
    BY <1>8, <2>1 DEF RxReplaces
<1>9. CASE TxTakes \/ TxSends \/ UNCHANGED socketVars
  BY <1>9 DEF TxTakes, TxSends, socketVars
<1>10. QED
  BY <1>1, <1>2, <1>3, <1>4, <1>5, <1>6, <1>7, <1>8, <1>9 DEF SocketNext, CfgStep

\* set_port and task_rx between them never leave the receiving task waiting on a
\* socket of another port without a new one on its way, but for the race that the
\* comment in set_port suspects (state.rs, set_port, udp_processing).
THEOREM AlwaysListens == SocketSpec => []ListensOnPort
<1>1. ListenInv => ListensOnPort
  BY DEF ListenInv, WaitingInv, PortInv, ListensOnPort, Newest
<1>2. SocketInit => SocketTypeOK /\ ListenInv
  BY SocketTypeInit, ListenInit
<1>3. SocketTypeOK /\ ListenInv /\ [SocketNext]_socketVars => (SocketTypeOK /\ ListenInv)'
  BY SocketTypeNext, SenderNext, WaitingNext, PortNext DEF ListenInv
<1>4. QED
  BY <1>1, <1>2, <1>3, PTL DEF SocketSpec

-----------------------------------------------------------------------------
\* Who may still write into the pipe while the parent reads.
PipeInv ==
  /\ parent = "reading" /\ main = "middle" => "middle" \in writers
  /\ parent \in {"reading", "failed"} /\ main \notin {"options", "fork", "middle", "gone"} /\ ~told
       => "daemon" \in writers
  /\ parent = "failed" => main = "gone"
  /\ parent # "none" => main \notin {"options", "fork"} /\ ~opt.foreground
  /\ main = "fork" => ~opt.foreground

\* What a stage of run, and the byte in the pipe, say of what was done before.
StageInv ==
  /\ ready => watch
  /\ main = "privileges" => ready
  /\ main = "notify" => ready /\ user
  /\ told => main \in {"serving", "gone"} /\ watch /\ user
  /\ parent = "ok" => told

LifeInv == PipeInv /\ StageInv

LEMMA LifeInit == DaemonInit => LifeInv
BY DEF DaemonInit, LifeInv, PipeInv, StageInv

LEMMA LifeNext == LifeInv /\ [DaemonNext]_daemonVars => LifeInv'
<1> SUFFICES ASSUME LifeInv, [DaemonNext]_daemonVars PROVE LifeInv'
  OBVIOUS
<1> USE DEF LifeInv, PipeInv, StageInv, pipe, files, tasks
<1>1. CASE LoadOptions
  BY <1>1 DEF LoadOptions, Died
<1>2. CASE Fork
  BY <1>2 DEF Fork
<1>3. CASE ParentCloses
  BY <1>3 DEF ParentCloses
<1>4. CASE ParentReads
  BY <1>4 DEF ParentReads
<1>5. CASE SecondFork
  BY <1>5 DEF SecondFork, Died
<1>6. CASE MiddleExits
  BY <1>6 DEF MiddleExits
<1>7. CASE Run
  <2>1. CASE StartScope \/ SpawnTasks \/ ReadyOrNot
    BY <2>1 DEF StartScope, SpawnTasks, ReadyOrNot
  <2>2. CASE Configure \/ DropPrivileges \/ End
    BY <2>2 DEF Configure, DropPrivileges, End, Died
  <2>3. CASE Notify
    BY <2>3 DEF Notify, Died
  <2>4. QED
    BY <1>7, <2>1, <2>2, <2>3 DEF Run
<1>8. CASE IpcTask
  BY <1>8 DEF IpcTask, IpcBinds, IpcWatches, SocketDeleted
<1>9. CASE Reload
  BY <1>9 DEF Reload, Hangup, ReloadReads, ReloadApplies
<1>10. CASE World
  <2>1. CASE Delete \/ Rewrite
    BY <2>1 DEF Delete, Rewrite
  <2>2. ASSUME NEW s \in Signals, Signal(s) PROVE LifeInv'
    BY <2>2 DEF Signal, Died
  <2>3. ASSUME NEW t \in Tasks, TaskBreaks(t) PROVE LifeInv'
    BY <2>3 DEF TaskBreaks
  <2>4. QED
    BY <1>10, <2>1, <2>2, <2>3 DEF World
<1>11. CASE Interrupted
  BY <1>11 DEF Interrupted
<1>12. ASSUME NEW t \in Tasks, FirstPoll(t) \/ TaskCancelled(t) PROVE LifeInv'
  BY <1>12 DEF FirstPoll, TaskCancelled, TaskOver, Died
<1>13. CASE UNCHANGED daemonVars
  BY <1>13 DEF daemonVars
<1>14. QED
  BY <1>1, <1>2, <1>3, <1>4, <1>5, <1>6, <1>7, <1>8, <1>9, <1>10, <1>11, <1>12, <1>13
  DEF DaemonNext

\* The process that was started reports the end of the start truthfully, whichever step
\* fails and in whatever order the three processes close the pipe (daemonize, run).
THEOREM ParentIsTruthful == DaemonSpec => []ParentTruthful
<1>1. LifeInv => ParentTruthful
  BY DEF LifeInv, PipeInv, StageInv, ParentTruthful
<1>2. QED
  BY <1>1, LifeInit, LifeNext, PTL DEF DaemonSpec
==============================================================================

------------------------------ MODULE RoutingProofs ------------------------------
(***************************************************************************)
(* TLAPS proofs about specs and subjects, and about the options of         *)
(* connections (modules Subjects and Options), for every set of words,     *)
(* prefixes, specs and runners, and names and options of any number.       *)
(***************************************************************************)
EXTENDS Subjects, Options, SequenceTheorems, TLAPS

USE SubjectsAssumption, OptionsAssumption

(***************************************************************************)
(* Names and subjects.                                                     *)
(***************************************************************************)
Tokens == Words \cup Prefixes \cup Wildcards

\* A name is a sequence of tokens.
LEMMA NamesAreSeqs == Names \subseteq Seq(Tokens)
<1> SUFFICES ASSUME NEW k \in 0..MaxTokens, NEW n \in [1..k -> Words \cup Wildcards]
             PROVE  n \in Seq(Tokens)
  BY DEF Names
<1>1. n \in Seq(Words \cup Wildcards)
  OBVIOUS
<1> QED
  BY <1>1, SeqMonotonic DEF Tokens

\* A word is no wildcard, nor is a prefix.
LEMMA WordsArePlain == \A w \in Words \cup Prefixes : w # One /\ w # Rest
BY DEF Wildcards

\* The elements of a concatenation are those of its parts.
LEMMA ConcatElements ==
  ASSUME NEW s \in Seq(Tokens), NEW t \in Seq(Tokens)
  PROVE  /\ s \o t \in Seq(Tokens) /\ Len(s \o t) = Len(s) + Len(t)
         /\ \A i \in 1..Len(s) : (s \o t)[i] = s[i]
         /\ \A i \in 1..Len(t) : (s \o t)[Len(s) + i] = t[i]
<1>1. Len(s) \in Nat /\ Len(t) \in Nat
  BY LenProperties
<1>2. /\ s \o t \in Seq(Tokens) /\ Len(s \o t) = Len(s) + Len(t)
      /\ \A i \in 1..(Len(s) + Len(t)) :
           (s \o t)[i] = IF i <= Len(s) THEN s[i] ELSE t[i - Len(s)]
  BY ConcatProperties
<1>3. \A i \in 1..Len(s) : (s \o t)[i] = s[i]
  BY <1>1, <1>2
<1>4. ASSUME NEW i \in 1..Len(t) PROVE (s \o t)[Len(s) + i] = t[i]
  <2>1. Len(s) + i \in 1..(Len(s) + Len(t)) /\ ~(Len(s) + i <= Len(s)) /\ Len(s) + i - Len(s) = i
    BY <1>1
  <2> QED
    BY <1>2, <2>1
<1> QED
  BY <1>2, <1>3, <1>4

\* The subject of a method, and the pattern of its service.
LEMMA RPCTokens ==
  ASSUME NEW p \in Tokens, NEW v \in Seq(Tokens), Len(v) = 1,
         NEW m \in Seq(Tokens), Len(m) = 1
  PROVE  /\ RPCSubject(p, v, m) \in Seq(Tokens)
         /\ Len(RPCSubject(p, v, m)) = 3
         /\ RPCSubject(p, v, m)[1] = p
         /\ RPCSubject(p, v, m)[2] = v[1]
         /\ RPCSubject(p, v, m)[3] = m[1]
<1>1. <<p>> \in Seq(Tokens) /\ Len(<<p>>) = 1 /\ <<p>>[1] = p
  OBVIOUS
<1> DEFINE q == <<p>>
           pv == q \o v
<1> HIDE DEF q
<1>2. /\ pv \in Seq(Tokens) /\ Len(pv) = Len(q) + Len(v)
      /\ \A i \in 1..Len(q) : pv[i] = q[i]
      /\ \A i \in 1..Len(v) : pv[Len(q) + i] = v[i]
  BY <1>1, ConcatElements DEF q
<1>3. Len(q) = 1 /\ q[1] = p
  BY <1>1 DEF q
<1> HIDE DEF pv
<1>4. Len(pv) = 2 /\ pv[1] = p /\ pv[2] = v[1]
  BY <1>2, <1>3
<1>5. /\ pv \o m \in Seq(Tokens) /\ Len(pv \o m) = Len(pv) + Len(m)
      /\ \A i \in 1..Len(pv) : (pv \o m)[i] = pv[i]
      /\ \A i \in 1..Len(m) : (pv \o m)[Len(pv) + i] = m[i]
  BY <1>2, ConcatElements
<1>6. Len(pv \o m) = 3 /\ (pv \o m)[1] = p /\ (pv \o m)[2] = v[1] /\ (pv \o m)[3] = m[1]
  BY <1>4, <1>5
<1> QED
  BY <1>5, <1>6 DEF RPCSubject, pv, q

\* The subject of a message.
LEMMA MsgTokens ==
  ASSUME NEW p \in Tokens, NEW n \in Seq(Tokens)
  PROVE  /\ MsgSubject(p, n) \in Seq(Tokens)
         /\ Len(MsgSubject(p, n)) = Len(n) + 1
         /\ MsgSubject(p, n)[1] = p
         /\ \A i \in 1..Len(n) : MsgSubject(p, n)[i + 1] = n[i]
<1>1. <<p>> \in Seq(Tokens) /\ Len(<<p>>) = 1 /\ <<p>>[1] = p
  OBVIOUS
<1>2. /\ <<p>> \o n \in Seq(Tokens) /\ Len(<<p>> \o n) = Len(n) + 1
      /\ \A i \in 1..(Len(n) + 1) : (<<p>> \o n)[i] = IF i <= 1 THEN p ELSE n[i - 1]
  BY <1>1, ConcatProperties
<1>3. Len(n) \in Nat
  OBVIOUS
<1> QED
  BY <1>2, <1>3 DEF MsgSubject

-----------------------------------------------------------------------------
(***************************************************************************)
(* Specs that could be made.                                               *)
(***************************************************************************)
RPCSpec(s) == s \in RPCSpecs(Prefixes, News) /\ SpecOK(s)
MsgSpec(s) == s \in MsgSpecs(Prefixes, News) /\ SpecOK(s)

LEMMA RPCSpecFields ==
  ASSUME NEW s, RPCSpec(s)
  PROVE  /\ s.of = "rpc" /\ s.prefix \in Prefixes /\ s.prefix \in Tokens
         /\ s.svc \in Seq(Tokens) /\ Len(s.svc) = 1 /\ s.svc[1] \in Words
         /\ s.method \in Seq(Tokens) /\ Len(s.method) = 1 /\ s.method[1] \in Words
         /\ s.method \in Names \ {<<>>}
BY NamesAreSeqs DEF Tokens, RPCSpec, RPCSpecs, SpecOK, RPCSpecOK, ValidName

LEMMA MsgSpecFields ==
  ASSUME NEW s, MsgSpec(s)
  PROVE  /\ s.of = "msg" /\ s.prefix \in Prefixes /\ s.prefix \in Tokens
         /\ s.subject \in Seq(Tokens)
         /\ Len(s.subject) \in Nat \ {0} /\ \A i \in 1..Len(s.subject) : s.subject[i] \in Words
<1>1. /\ s.of = "msg" /\ s.prefix \in Prefixes /\ s.prefix \in Tokens
      /\ s.subject \in Seq(Tokens)
  BY NamesAreSeqs DEF MsgSpec, MsgSpecs, Tokens
<1>2. s.subject # <<>> /\ \A i \in DOMAIN s.subject : s.subject[i] \in Words
  BY <1>1 DEF MsgSpec, SpecOK, MsgSpecOK, ValidSubject
<1> QED
  BY <1>1, <1>2, EmptySeq, LenProperties

\* A request for the spec w goes to the subscriptions of its prefix and service.
LEMMA RPCMatches ==
  ASSUME NEW w, RPCSpec(w), NEW s, RPCSpec(s)
  PROVE  Matches(SubjectOf(w), PatternOf(s)) <=> s.prefix = w.prefix /\ s.svc = w.svc
<1> DEFINE x == RPCSubject(w.prefix, w.svc, w.method)
           y == RPCSubject(s.prefix, s.svc, <<Rest>>)
<1>1. SubjectOf(w) = x /\ PatternOf(s) = y
  BY RPCSpecFields DEF SubjectOf, PatternOf
<1>2. x \in Seq(Tokens) /\ Len(x) = 3 /\ x[1] = w.prefix /\ x[2] = w.svc[1] /\ x[3] = w.method[1]
  BY RPCSpecFields, RPCTokens DEF Tokens
<1>3. <<Rest>> \in Seq(Tokens) /\ Len(<<Rest>>) = 1 /\ <<Rest>>[1] = Rest
  BY DEF Tokens, Wildcards
<1> DEFINE rest == <<Rest>>
<1>fits. rest \in Seq(Tokens) /\ Len(rest) = 1 /\ rest[1] = Rest /\ y = RPCSubject(s.prefix, s.svc, rest)
  BY <1>3
<1> HIDE DEF rest, x, y
<1>4. y \in Seq(Tokens) /\ Len(y) = 3 /\ y[1] = s.prefix /\ y[2] = s.svc[1] /\ y[3] = Rest
  BY <1>fits, RPCSpecFields, RPCTokens
<1> HIDE DEF x, y
<1>5. Matches(x, y) <=> \A i \in 1..3 : y[i] \in {x[i]} \cup Wildcards
  BY <1>2, <1>4 DEF Matches
<1>6. Matches(x, y) <=> y[1] = x[1] /\ y[2] = x[2]
  <2>1. y[1] \notin Wildcards /\ y[2] \notin Wildcards /\ y[3] \in Wildcards
    BY <1>4, RPCSpecFields, WordsArePlain DEF Wildcards
  <2>2. \A i \in 1..3 : i = 1 \/ i = 2 \/ i = 3
    OBVIOUS
  <2> QED
    BY <1>5, <2>1, <2>2
<1>7. s.svc = w.svc <=> s.svc[1] = w.svc[1]
  BY RPCSpecFields, SeqEqual
<1> QED
  BY <1>1, <1>2, <1>4, <1>6, <1>7

\* A message of the spec w goes to the subscriptions of its prefix and subject.
LEMMA MsgMatches ==
  ASSUME NEW w, MsgSpec(w), NEW s, MsgSpec(s)
  PROVE  Matches(SubjectOf(w), PatternOf(s)) <=> s.prefix = w.prefix /\ s.subject = w.subject
<1> DEFINE x == MsgSubject(w.prefix, w.subject)
           y == MsgSubject(s.prefix, s.subject)
           n == Len(w.subject)
           k == Len(s.subject)
<1>1. SubjectOf(w) = x /\ PatternOf(s) = y
  BY MsgSpecFields DEF SubjectOf, PatternOf
<1>2. /\ x \in Seq(Tokens) /\ Len(x) = n + 1 /\ x[1] = w.prefix
      /\ \A i \in 1..n : x[i + 1] = w.subject[i]
  <2>1. w.prefix \in Tokens /\ w.subject \in Seq(Tokens)
    BY MsgSpecFields
  <2> QED
    BY <2>1, MsgTokens
<1>3. /\ y \in Seq(Tokens) /\ Len(y) = k + 1 /\ y[1] = s.prefix
      /\ \A i \in 1..k : y[i + 1] = s.subject[i]
  <2>1. s.prefix \in Tokens /\ s.subject \in Seq(Tokens)
    BY MsgSpecFields
  <2> QED
    BY <2>1, MsgTokens
<1>4. n \in Nat \ {0} /\ k \in Nat \ {0}
  BY MsgSpecFields
<1> HIDE DEF x, y, n, k
<1>5. \A i \in 1..(k + 1) : y[i] \notin Wildcards
  <2> SUFFICES ASSUME NEW i \in 1..(k + 1) PROVE y[i] \notin Wildcards
    OBVIOUS
  <2>1. CASE i = 1
    BY <1>3, <2>1, MsgSpecFields, WordsArePlain DEF Wildcards
  <2>2. CASE i # 1
    <3>1. i - 1 \in 1..k /\ y[i] = s.subject[i - 1]
      BY <1>3, <1>4, <2>2
    <3> QED
      BY <3>1, MsgSpecFields, WordsArePlain DEF Wildcards, k
  <2> QED
    BY <2>1, <2>2
<1>6. Matches(x, y) <=> k = n /\ \A i \in 1..(k + 1) : y[i] = x[i]
  <2>1. y[k + 1] # Rest
    BY <1>4, <1>5 DEF Wildcards
  <2>2. Matches(x, y) <=> n + 1 = k + 1 /\ \A i \in 1..(k + 1) : y[i] \in {x[i]} \cup Wildcards
    <3>1. DOMAIN y = 1..(k + 1)
      BY <1>3, LenProperties
    <3> QED
      BY <1>2, <1>3, <1>4, <2>1, <3>1 DEF Matches
  <2> QED
    BY <1>4, <1>5, <2>2
<1>7. ASSUME s.prefix = w.prefix, s.subject = w.subject PROVE Matches(x, y)
  <2>1. x = y /\ k = n
    BY <1>7 DEF x, y, k, n
  <2> QED
    BY <1>6, <2>1
<1>8. ASSUME Matches(x, y) PROVE s.prefix = w.prefix /\ s.subject = w.subject
  <2>1. s.prefix = w.prefix
    BY <1>2, <1>3, <1>4, <1>6, <1>8
  <2>2. \A i \in 1..k : s.subject[i] = w.subject[i]
    <3> SUFFICES ASSUME NEW i \in 1..k PROVE s.subject[i] = w.subject[i]
      OBVIOUS
    <3>1. i + 1 \in 1..(k + 1)
      BY <1>4
    <3> QED
      BY <1>2, <1>3, <1>6, <1>8, <3>1
  <2>3. s.subject = w.subject
    BY <1>6, <1>8, <2>2, MsgSpecFields, SeqEqual DEF k, n
  <2> QED
    BY <2>1, <2>3
<1> QED
  BY <1>1, <1>7, <1>8

\* The parser of a subscription that gets the request finds its method.
LEMMA ParseFinds ==
  ASSUME NEW w, RPCSpec(w), NEW r, RPCSpec(r), r.prefix = w.prefix, r.svc = w.svc
  PROVE  Parse(r, SubjectOf(w)) = {w.method}
<1> DEFINE pv == <<w.prefix>> \o w.svc
<1>1. pv \in Seq(Tokens)
  <2>1. <<w.prefix>> \in Seq(Tokens)
    BY RPCSpecFields DEF Tokens
  <2> QED
    BY <2>1, RPCSpecFields, ConcatProperties
<1>2. SubjectOf(w) = pv \o w.method
  BY RPCSpecFields DEF SubjectOf, RPCSubject
<1>3. \A n \in Names : RPCSubject(r.prefix, r.svc, n) = pv \o n
  BY DEF RPCSubject
<1>4. w.method \in Names \ {<<>>} /\ w.method \in Seq(Tokens)
  BY RPCSpecFields
<1> HIDE DEF pv
<1>5. \A n \in Names : pv \o w.method = pv \o n => n = w.method
  BY <1>1, <1>4, NamesAreSeqs, ConcatSimplifications
<1> QED
  BY <1>2, <1>3, <1>4, <1>5 DEF Parse

-----------------------------------------------------------------------------
(***************************************************************************)
(* Subjects: the inductive invariant, in parts.                            *)
(***************************************************************************)
\* One connection serves specs of one kind, and of its prefix.
Served ==
  \E p \in Prefixes :
    \/ /\ wanted \in RPCSpecs(Prefixes, News)
       /\ \A s \in served : RPCSpec(s) /\ s.prefix = p
    \/ /\ wanted \in MsgSpecs(Prefixes, News)
       /\ \A s \in served : MsgSpec(s) /\ s.prefix = p

\* The subscriptions that a call or message reaches: those of its names.
ToReach(s) == s.prefix = wanted.prefix
              /\ IF s.of = "rpc" THEN s.svc = wanted.svc ELSE s.subject = wanted.subject

RouteInv ==
  /\ Served
  /\ step \in {"spec", "send", "dispatch", "done", "refused"}
  /\ step \in {"send", "dispatch", "done"} => SpecOK(wanted)
  /\ step \in {"dispatch", "done"} => reached = {s \in served : ToReach(s)}
  /\ step = "done" => found = {s \in served : Same(s, wanted)}

LEMMA ServesSome ==
  ASSUME NEW S, NEW T \in Serving(S) PROVE T \subseteq {s \in S : SpecOK(s)}
<1> DEFINE OK == {s \in S : SpecOK(s)}
<1>1. T \in {{f[i] : i \in DOMAIN f} : f \in UNION {[1..n -> OK] : n \in 0..MaxServed}}
  BY DEF Serving
<1> HIDE DEF OK
<1>2. PICK f \in UNION {[1..n -> OK] : n \in 0..MaxServed} : T = {f[i] : i \in DOMAIN f}
  BY <1>1
<1>3. PICK n \in 0..MaxServed : f \in [1..n -> OK]
  BY <1>2
<1> QED
  BY <1>2, <1>3 DEF OK

LEMMA RouteInitInv == RouteInit => RouteInv
<1> SUFFICES ASSUME RouteInit PROVE RouteInv
  OBVIOUS
<1>1. PICK p \in Prefixes :
        \/ /\ wanted \in RPCSpecs(Prefixes, News)
           /\ served \subseteq {s \in RPCSpecs({p}, {"pointer"}) : SpecOK(s)}
        \/ /\ wanted \in MsgSpecs(Prefixes, News)
           /\ served \subseteq {s \in MsgSpecs({p}, {"pointer"}) : SpecOK(s)}
  BY ServesSome DEF RouteInit
<1>2. \A s \in RPCSpecs({p}, {"pointer"}) : s.prefix = p /\ s \in RPCSpecs(Prefixes, News)
  BY DEF RPCSpecs, News
<1>3. \A s \in MsgSpecs({p}, {"pointer"}) : s.prefix = p /\ s \in MsgSpecs(Prefixes, News)
  BY DEF MsgSpecs, News
<1>4. Served
  BY <1>1, <1>2, <1>3 DEF Served, RPCSpec, MsgSpec
<1> QED
  BY <1>4 DEF RouteInit, RouteInv

\* A spec that could be made is served together with specs of its kind.
LEMMA SameKind ==
  ASSUME Served, SpecOK(wanted)
  PROVE  \/ RPCSpec(wanted) /\ \A s \in served : RPCSpec(s)
         \/ MsgSpec(wanted) /\ \A s \in served : MsgSpec(s)
BY DEF Served, RPCSpec, MsgSpec

LEMMA MakeSpecStep == RouteInv /\ MakeSpec => RouteInv'
<1> SUFFICES ASSUME RouteInv, MakeSpec PROVE RouteInv'
  OBVIOUS
<1>1. Served'
  BY DEF RouteInv, MakeSpec, Served
<1> QED
  BY <1>1 DEF RouteInv, MakeSpec

LEMMA SendStep == RouteInv /\ Send => RouteInv'
<1> SUFFICES ASSUME RouteInv, Send PROVE RouteInv'
  OBVIOUS
<1>1. Served' /\ Served /\ SpecOK(wanted)
  BY DEF RouteInv, Send, Served
<1>2. \A s \in served : Matches(SubjectOf(wanted), PatternOf(s)) <=> ToReach(s)
  <2>1. CASE RPCSpec(wanted) /\ \A s \in served : RPCSpec(s)
    BY <2>1, RPCMatches, RPCSpecFields DEF ToReach
  <2>2. CASE MsgSpec(wanted) /\ \A s \in served : MsgSpec(s)
    BY <2>2, MsgMatches, MsgSpecFields DEF ToReach
  <2> QED
    BY <1>1, <2>1, <2>2, SameKind
<1>3. reached' = {s \in served : ToReach(s)}
  BY <1>2 DEF Send
<1> QED
  BY <1>1, <1>3 DEF RouteInv, Send, ToReach

LEMMA DispatchStep == RouteInv /\ Dispatch => RouteInv'
<1> SUFFICES ASSUME RouteInv, Dispatch PROVE RouteInv'
  OBVIOUS
<1>1. Served' /\ Served /\ SpecOK(wanted) /\ reached = {s \in served : ToReach(s)}
  BY DEF RouteInv, Dispatch, Served
<1>2. CASE RPCSpec(wanted) /\ \A s \in served : RPCSpec(s)
  <2>1. \A r \in reached : r \in served /\ RPCSpec(r) /\ r.prefix = wanted.prefix
                                       /\ r.svc = wanted.svc /\ r.of = "rpc"
    BY <1>1, <1>2, RPCSpecFields DEF ToReach
  <2>2. \A r \in reached : Parse(r, SubjectOf(wanted)) = {wanted.method}
    BY <1>2, <2>1, ParseFinds
  <2>3. step' = "done"
    BY <2>2 DEF Dispatch
  <2>4. \A r \in reached :
          HandlersAt(r) = {s \in served : s.svc = wanted.svc /\ s.method = wanted.method}
    BY <2>1, <2>2 DEF HandlersAt
  <2>5. \A s, t \in served : s.prefix = t.prefix
    BY <1>1, <1>2, RPCSpecFields, MsgSpecFields DEF Served
  <2>6. \A s \in served :
          Same(s, wanted) <=> /\ s.prefix = wanted.prefix /\ s.svc = wanted.svc
                              /\ s.method = wanted.method
    BY <1>2, RPCSpecFields DEF Same
  <2>7. found' = {s \in served : Same(s, wanted)}
    <3>1. found' = UNION {HandlersAt(r) : r \in reached}
      BY DEF Dispatch
    <3>2. ASSUME NEW s \in found' PROVE s \in served /\ Same(s, wanted)
      BY <2>1, <2>4, <2>5, <2>6, <3>1
    <3>3. ASSUME NEW s \in served, Same(s, wanted) PROVE s \in found'
      <4>1. s \in reached
        BY <1>1, <1>2, <2>6, <3>3, RPCSpecFields DEF ToReach
      <4> QED
        BY <2>4, <2>6, <3>1, <3>3, <4>1
    <3> QED
      BY <3>2, <3>3
  <2> QED
    BY <1>1, <2>3, <2>7 DEF RouteInv, Dispatch, ToReach, Same
<1>3. CASE MsgSpec(wanted) /\ \A s \in served : MsgSpec(s)
  <2>1. \A s \in served : s.of = "msg"
    BY <1>3, MsgSpecFields
  <2>2. step' = "done"
    BY <1>1, <2>1 DEF Dispatch
  <2>3. found' = reached
    BY <1>1, <2>1 DEF Dispatch, HandlersAt
  <2>4. reached = {s \in served : Same(s, wanted)}
    BY <1>1, <2>1 DEF ToReach, Same
  <2> QED
    BY <1>1, <2>2, <2>3, <2>4 DEF RouteInv, Dispatch, ToReach, Same
<1> QED
  BY <1>1, <1>2, <1>3, SameKind

LEMMA RouteStep == RouteInv /\ [RouteNext]_routeVars => RouteInv'
<1> SUFFICES ASSUME RouteInv, [RouteNext]_routeVars PROVE RouteInv'
  OBVIOUS
<1>1. CASE UNCHANGED routeVars
  BY <1>1 DEF routeVars, RouteInv, Served, ToReach, Same
<1> QED
  BY <1>1, MakeSpecStep, SendStep, DispatchStep DEF RouteNext, Routed

\* A call or message whose spec could be made reaches the handler of its names and
\* prefix and no other, whatever specs a connection serves, and no subject surprises
\* its parser.
THEOREM SubjectsRouteRight == RouteSpec => []RoutedRight
<1>1. RouteInv => RoutedRight
  BY DEF RouteInv, RoutedRight, ToReach
<1> QED
  BY <1>1, RouteInitInv, RouteStep, PTL DEF RouteSpec

-----------------------------------------------------------------------------
(***************************************************************************)
(* Options: the inductive invariant.                                       *)
(***************************************************************************)
OptionsInv ==
  /\ options \in Seq(Option)
  /\ given \in Seq(Runners \cup {DefaultRunner}) /\ Len(given) > 0
  /\ runner = given[Len(given)]
  /\ \A i \in 1..Len(given) : given[i] \in closed \cup {runner}
  /\ conn \in {"making", "made"} => \A r \in closed : \E i \in 1..(Len(given) - 1) : given[i] = r
  /\ conn \in {"refused", "closed"} => runner \in closed
  /\ conn \in {"making", "made", "refused", "closed"}

LEMMA OptionsInitInv == OptionsInit => OptionsInv
<1> SUFFICES ASSUME OptionsInit PROVE OptionsInv
  OBVIOUS
<1>1. options \in Seq(Option)
  BY DEF OptionsInit
<1>2. /\ given \in Seq(Runners \cup {DefaultRunner}) /\ Len(given) = 1
      /\ given[1] = DefaultRunner
  BY DEF OptionsInit
<1> QED
  BY <1>1, <1>2 DEF OptionsInit, OptionsInv

LEMMA ApplyStep == OptionsInv /\ Apply => OptionsInv'
<1> SUFFICES ASSUME OptionsInv, Apply PROVE OptionsInv'
  OBVIOUS
<1>1. Head(options) \in Option /\ options' \in Seq(Option)
  BY HeadTailProperties DEF OptionsInv, Apply
<1>2. Len(given) \in Nat
  BY LenProperties DEF OptionsInv
<1>3. CASE Head(options).to \in {"nil", "refused"} /\ conn' = "refused"
           /\ closed' = closed \cup {runner} /\ UNCHANGED <<runner, given>>
  BY <1>1, <1>3 DEF OptionsInv
<1>4. CASE Head(options).to = "accepted" /\ UNCHANGED <<runner, given, closed, conn>>
  BY <1>1, <1>4 DEF OptionsInv
<1>5. CASE Head(options).to \in Runners /\ closed' = closed \cup {runner}
           /\ runner' = Head(options).to /\ given' = Append(given, Head(options).to)
           /\ UNCHANGED conn
  <2> DEFINE n == Len(given)
  <2>1. /\ given' \in Seq(Runners \cup {DefaultRunner}) /\ Len(given') = n + 1
        /\ given'[n + 1] = runner'
        /\ \A i \in 1..n : given'[i] = given[i]
    BY <1>2, <1>5, AppendProperties DEF OptionsInv
  <2>2. n \in Nat \ {0} /\ runner = given[n]
    BY <1>2 DEF OptionsInv
  <2> HIDE DEF n
  <2>3. \A i \in 1..(n + 1) : given'[i] \in closed' \cup {runner'}
    <3> SUFFICES ASSUME NEW i \in 1..(n + 1) PROVE given'[i] \in closed' \cup {runner'}
      OBVIOUS
    <3>1. CASE i = n + 1
      BY <2>1, <3>1
    <3>2. CASE i # n + 1
      <4>1. i \in 1..n
        BY <2>2, <3>2
      <4> QED
        BY <1>5, <2>1, <4>1 DEF OptionsInv, n
    <3> QED
      BY <3>1, <3>2
  <2>4. ASSUME conn' \in {"making", "made"}, NEW r \in closed'
        PROVE  \E i \in 1..n : given'[i] = r
    <3>1. CASE r = runner
      BY <2>1, <2>2, <3>1
    <3>2. CASE r # runner
      <4>1. PICK i \in 1..(n - 1) : given[i] = r
        BY <1>5, <2>4, <3>2 DEF OptionsInv, n
      <4>2. i \in 1..n
        BY <2>2
      <4> QED
        BY <2>1, <4>1, <4>2
    <3> QED
      BY <3>1, <3>2
  <2>5. n + 1 - 1 = n /\ n + 1 > 0
    BY <2>2
  <2> QED
    BY <1>1, <1>5, <2>1, <2>3, <2>4, <2>5 DEF OptionsInv, Apply
<1> QED
  BY <1>3, <1>4, <1>5 DEF Apply, CloseReplaced

LEMMA OptionsStep == OptionsInv /\ [OptionsNext]_optVars => OptionsInv'
<1> SUFFICES ASSUME OptionsInv, [OptionsNext]_optVars PROVE OptionsInv'
  OBVIOUS
<1>1. CASE Made
  BY <1>1 DEF OptionsInv, Made
<1>2. CASE CloseConn
  BY <1>2 DEF OptionsInv, CloseConn
<1>3. CASE UNCHANGED optVars
  BY <1>3 DEF OptionsInv, optVars
<1> QED
  BY <1>1, <1>2, <1>3, ApplyStep DEF OptionsNext, Constructed

\* No runner is leaked by a constructor or by Close, and none is closed while its
\* connection has it, unless it was given twice; for any options.
THEOREM OptionsOwnRunners == OptionsSpec => []RunnersOwned
<1>1. ASSUME OptionsInv PROVE RunnersOwned
  <2>1. Len(given) \in Nat \ {0} /\ DOMAIN given = 1..Len(given)
    BY <1>1, LenProperties DEF OptionsInv
  <2>2. ASSUME conn \in {"making", "made"}, runner \in closed
        PROVE  \E i, j \in {x \in DOMAIN given : given[x] = runner} : i # j
    <3>1. PICK i \in 1..(Len(given) - 1) : given[i] = runner
      BY <1>1, <2>2 DEF OptionsInv
    <3>2. given[Len(given)] = runner
      BY <1>1 DEF OptionsInv
    <3> DEFINE n == Len(given)
    <3>3. n \in Nat \ {0} /\ DOMAIN given = 1..n /\ i \in 1..(n - 1)
      BY <2>1, <3>1
    <3> HIDE DEF n
    <3>4. i \in 1..n /\ n \in 1..n /\ i # n
      BY <3>3
    <3>5. given[n] = runner
      BY <3>2 DEF n
    <3> QED
      BY <3>1, <3>3, <3>4, <3>5
  <2> QED
    BY <1>1, <2>1, <2>2 DEF OptionsInv, RunnersOwned
<1> QED
  BY <1>1, OptionsInitInv, OptionsStep, PTL DEF OptionsSpec
==============================================================================

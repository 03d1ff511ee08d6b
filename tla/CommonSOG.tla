----------------------------- MODULE CommonSOG -----------------------------
(***************************************************************************)
(* CommonSOG: the operations on aggregates that every construction calls,  *)
(* on the decision diagrams of module LDD, over a Petri net.               *)
(*                                                                         *)
(* A construction is followed along one observed sequence of transitions:  *)
(* S is the diagram the code has computed, and marks the set of markings   *)
(* that sequence and unobservable transitions lead to, by the definition   *)
(* of the net alone.                                                       *)
(***************************************************************************)
EXTENDS LDD, FiniteSetsExt

CONSTANT Nets  \* the nets, each with a marking and the propositions of a formula

ASSUME CommonSOGAssumption ==
  \A net \in Nets :
    /\ net.initial \in Seq(Nat)
    /\ net.transitions \in Seq([pre : Seq(Nat), post : Seq(Nat)])
    /\ \A t \in DOMAIN net.transitions :
         /\ DOMAIN net.transitions[t].pre = DOMAIN net.initial
         /\ DOMAIN net.transitions[t].post = DOMAIN net.initial
    /\ net.f_trans \subseteq DOMAIN net.transitions
    /\ net.f_places \subseteq DOMAIN net.initial

VARIABLES
  m_net,          \* the net
  m_tb_relation,  \* the diagrams of what each transition takes and gives
  S,              \* the aggregate, False before the first
  marks           \* what it stands for

vars == <<m_net, m_tb_relation, S, marks>>

Transition == DOMAIN m_net.transitions
pre(t) == m_net.transitions[t].pre
post(t) == m_net.transitions[t].post
m_nbPlaces == Len(m_net.initial)
m_place_proposition == m_net.f_places

(* Mutant: the transitions that give to a place of the formula are left    *)
(* out.                                                                    *)
setListObservablePost ==
  m_net.f_trans \cup {t \in Transition : \E p \in m_net.f_places : pre(t)[p] > 0}

(* A transition is observable when the formula names it, or a place next   *)
(* to it.                                                                  *)
setListObservable ==
  m_net.f_trans \cup {t \in Transition : \E p \in m_net.f_places : pre(t)[p] > 0 \/ post(t)[p] > 0}

mObservable ==
  IF m_net.f_trans \cup m_net.f_places = {} THEN Transition ELSE setListObservable
m_nonObservable == Transition \ mObservable

-----------------------------------------------------------------------------
(* The net alone. *)
Enabled(mark, t) == \A p \in DOMAIN mark : mark[p] >= pre(t)[p]
Fire(mark, t) == [p \in DOMAIN mark |-> mark[p] - pre(t)[p] + post(t)[p]]
Image(M, t) == {Fire(mark, t) : mark \in {x \in M : Enabled(x, t)}}
Images(M, T) == UNION {Image(M, t) : t \in T}

RECURSIVE Closure(_)
Closure(M) ==
  LET next == M \cup Images(M, m_nonObservable) IN IF next = M THEN M ELSE Closure(next)

-----------------------------------------------------------------------------
(* The operations on diagrams. *)
Cubes(net) ==
  [t \in DOMAIN net.transitions |-> [minus |-> Cube(net.transitions[t].pre),
                                     plus |-> Cube(net.transitions[t].post)]]

Fired(M, t) == Firing(M, m_tb_relation[t].minus, m_tb_relation[t].plus)

(* Loops over a set of transitions, a std::set, by increasing numbers. *)
ForEach(op(_, _), from, T) == FoldLeft(op, from, SetToSortSeq(T, <))

get_successor(M, t) == Fired(M, t)
get_pred(M, t) == Firing(M, m_tb_relation[t].plus, m_tb_relation[t].minus)
firable_obs(M) == {t \in mObservable : Fired(M, t) # False}

ImageForward(M) ==
  ForEach(LAMBDA res, t : Union(res, Fired(M, t)), False, m_nonObservable)

(* Mutant: the transitions are fired once. *)
Accessible_epsilonOnce(M) ==
  ForEach(LAMBDA m2, t : Union(m2, Fired(m2, t)), M, m_nonObservable)

RECURSIVE Accessible_epsilon(_)
Accessible_epsilon(M) ==
  LET m2 == ForEach(LAMBDA m, t : Union(m, Fired(m, t)), M, m_nonObservable)
  IN  IF m2 = M THEN M ELSE Accessible_epsilon(m2)

(* The loops of Canonize: what is reached from front is taken from target. *)
RECURSIVE TakeReached(_, _, _)
TakeReached(front, reach, target) ==
  LET new == Minus(ImageForward(front), reach)
      left == Minus(target, new)
  IN  IF new = False \/ left = False THEN left
      ELSE TakeReached(new, Union(reach, new), left)

(* Mutant: both halves are taken from, each with all of the other. *)
RECURSIVE CanonizeBoth(_, _)
CanonizeBoth(m, level) ==
  LET branching == {l \in level .. m_nbPlaces - 1 : get_mddnbr(m, l) > 1}
  IN  IF m = False \/ level > m_nbPlaces THEN False
      ELSE IF isSingleMDD(m) THEN m
      ELSE IF branching = {} THEN False
      ELSE LET l == Min(branching)
               d0 == Divide(m, 0, l)
               d1 == Minus(m, d0)
           IN  Union(CanonizeBoth(TakeReached(d1, d1, d0), l), CanonizeBoth(TakeReached(d0, d0, d1), l))

(* Representatives: the diagram is divided where it branches first, what   *)
(* one half reaches in the other is left out, and so on.                   *)
RECURSIVE Canonize(_, _)
Canonize(m, level) ==
  LET branching == {l \in level .. m_nbPlaces - 1 : get_mddnbr(m, l) > 1}
  IN  IF m = False \/ level > m_nbPlaces THEN False
      ELSE IF isSingleMDD(m) THEN m
      ELSE IF branching = {} THEN False
      ELSE LET l == Min(branching)
               d0 == Divide(m, 0, l)
               d1 == Minus(m, d0)
               s0 == TakeReached(d1, d1, d0)
               s1 == IF s0 = False THEN d1 ELSE TakeReached(s0, s0, d1)
           IN  Union(IF isSingleMDD(s0) THEN s0 ELSE Canonize(s0, l),
                     IF isSingleMDD(s1) THEN s1 ELSE Canonize(s1, l))

(* Mutant: the first image decides. *)
Set_DivOnce(M) == m_nonObservable # {} /\ M # False /\ ImageForward(M) = M

(* Images of the aggregate until they stay the same or there is none. *)
RECURSIVE Cycles(_)
Cycles(from) ==
  LET reached == ImageForward(from)
  IN  reached = from \/ (reached # False /\ Cycles(reached))
Set_Div(M) == m_nonObservable # {} /\ M # False /\ Cycles(M)

(* getMarkedPlaces and getUnmarkedPlaces follow the first marking of S. *)
RECURSIVE Depth(_, _)
Depth(M, p) == IF p = 1 THEN M ELSE Depth(Down(M), p - 1)
getMarkedPlaces(M) == {p \in m_place_proposition : Value(Depth(M, p)) # 0}
getUnmarkedPlaces(M) == {p \in m_place_proposition : Value(Depth(M, p)) = 0}

-----------------------------------------------------------------------------
(* The partial order reduction. *)
Adjacent(arcs) == {p \in DOMAIN arcs : arcs[p] > 0}

AddConflict2(M, t) ==
  LET others == Transition \ {t}
      competing == {i \in others : Adjacent(pre(i)) \cap Adjacent(pre(t)) # {}}
      feeding == {i \in others : Adjacent(post(i)) \cap Adjacent(pre(t)) # {}}
  IN  IF Intersect(M, get_pred(get_successor(M, t), t)) = M THEN competing
      ELSE IF Fired(M, t) = False THEN feeding
      ELSE competing \cup feeding

(* The loop over ample while it grows: an iterator of a std::set meets     *)
(* what is inserted only when it comes later in the order.                 *)
RECURSIVE AddConflicts(_, _, _)
AddConflicts(M, ample, visited) ==
  LET later == {t \in ample : t > visited}
  IN  IF later = {} THEN ample
      ELSE AddConflicts(M, ample \cup AddConflict2(M, Min(later)), Min(later))

(* A turn that adds nothing to ample is repeated for ever. *)
Unending == {0}

RECURSIVE Ample(_, _)
Ample(M, from) ==
  LET firable == {t \in Transition : Fired(M, t) # False}
      ample == AddConflicts(M, from \cup (IF firable = {} THEN {} ELSE {Min(firable)}), 0)
      img == ForEach(LAMBDA res, t : Union(res, Fired(M, t)), False, ample)
      pred == ForEach(LAMBDA res, t : Union(res, get_pred(img, t)), False, ample)
  IN  IF Intersect(M, pred) = M THEN ample
      ELSE IF ample = from THEN Unending
      ELSE Ample(M, ample)
computeAmple2(M) == Ample(M, {})

(* Mutant: observable transitions are fired as the others. *)
FireAllTransitions(From, r) ==
  LET firable == {i \in Transition : Fired(From, i) # False}
  IN  [r EXCEPT !.tObs = @ \cup (firable \cap mObservable),
                !.To = ForEach(LAMBDA to, i : Union(to, Fired(From, i)), @, firable),
                !.myStack = @ \cup {Fired(From, i) : i \in firable}]

(* What it reaches was already reached: all the transitions fire. *)
FireAll(From, r) ==
  LET firable == {i \in Transition : Fired(From, i) # False}
      unobserved == firable \cap m_nonObservable
  IN  [r EXCEPT !.tObs = @ \cup (firable \cap mObservable),
                !.To = ForEach(LAMBDA to, i : Union(to, Fired(From, i)), @, unobserved),
                !.myStack = @ \cup {Fired(From, i) : i \in unobserved}]

(* One transition of ample. *)
FireAmple(From, r, t) ==
  LET succ == Fired(From, t)
  IN  IF succ = False THEN r
      ELSE IF t \in mObservable THEN [r EXCEPT !.tObs = @ \cup {t}]
      ELSE IF succ \in r.myStack THEN FireAll(From, r)
      ELSE [r EXCEPT !.To = Union(@, succ), !.myStack = @ \cup {succ}]

RECURSIVE Saturate(_, _)
Saturate(From, r) ==
  LET ample == computeAmple2(From)
      fired == ForEach(LAMBDA x, t : FireAmple(From, x, t), r, ample)
      reach == Union(r.Reach2, fired.To)
      next == [fired EXCEPT !.Reach2 = reach, !.div = @ \/ fired.To = From, !.dead = @ \/ ample = {},
                            !.To = False]
  IN  IF ample = Unending THEN [r EXCEPT !.ends = FALSE]
      ELSE IF reach = r.Reach2 THEN next
      ELSE Saturate(fired.To, next)

saturatePOR(s) ==
  Saturate(s, [To |-> False, Reach2 |-> s, myStack |-> {s}, tObs |-> {}, div |-> FALSE, dead |-> FALSE,
               ends |-> TRUE])

-----------------------------------------------------------------------------
(* loadNetFromFile. *)
Init ==
  /\ m_net \in Nets
  /\ m_tb_relation = Cubes(m_net)
  /\ S = False
  /\ marks = {}

(* The aggregate of the initial marking. *)
Start ==
  /\ S = False
  /\ S' = Accessible_epsilon(Cube(m_net.initial))
  /\ marks' = Closure({m_net.initial})
  /\ UNCHANGED <<m_net, m_tb_relation>>

(* A builder fires an observable transition of the aggregate. *)
Successor ==
  \E t \in firable_obs(S) :
    /\ S' = Accessible_epsilon(get_successor(S, t))
    /\ marks' = Closure(Image(marks, t))
    /\ UNCHANGED <<m_net, m_tb_relation>>

Next == Start \/ Successor
Spec == Init /\ [][Next]_vars
-----------------------------------------------------------------------------
(* Properties. *)

(* An aggregate holds the markings its observed sequence can lead to, all  *)
(* of them and no other, and what is firable from it is what one of them   *)
(* enables: union, firing and the fixpoint of Accessible_epsilon lose and  *)
(* add nothing.                                                            *)
AggregateIsExact ==
  /\ Markings(S) = marks
  /\ firable_obs(S) = {t \in mObservable : Image(marks, t) # {}}

(* The self-loop Set_Div gives an aggregate is one when the unobservable   *)
(* transitions can go on for ever inside it: some of its markings have     *)
(* each a successor among them.                                            *)
RECURSIVE Recurrent(_)
Recurrent(M) ==
  LET kept == {x \in M : Images({x}, m_nonObservable) \cap M # {}}
  IN  IF kept = M THEN M ELSE Recurrent(kept)
DivIsCycle == Set_Div(S) <=> Recurrent(marks) # {}

(* The label Spot reads off the first marking of an aggregate is the label *)
(* of all its markings: no unobservable transition changes whether a place *)
(* of the formula is marked.                                               *)
LabelIsExact == S # False =>
  /\ getMarkedPlaces(S) = {p \in m_place_proposition : \A x \in marks : x[p] > 0}
  /\ getUnmarkedPlaces(S) = {p \in m_place_proposition : \A x \in marks : x[p] = 0}

(* The process that receives an aggregate rebuilds the one that was sent,  *)
(* whole or canonized: the representatives Canonize keeps reach all the    *)
(* markings it leaves out, and the message keeps every representative.     *)
Rebuilt(M) == Accessible_epsilon(Decode(Encode(M), m_nbPlaces))
MessageRebuilds == S # False => Rebuilt(S) = S /\ Rebuilt(Canonize(S, 0)) = S

(* The reduced aggregate of a marking, when saturatePOR returns, has no    *)
(* marking outside the aggregate and announces no transition that is not   *)
(* firable from it: the reduction adds no behaviour.                       *)
Sources == {Cube(m_net.initial)} \cup {get_successor(S, t) : t \in firable_obs(S)}
ReductionIsSound ==
  \A s \in Sources :
    LET reduced == saturatePOR(s)
        whole == Accessible_epsilon(s)
    IN  reduced.ends => /\ Markings(reduced.Reach2) \subseteq Markings(whole)
                        /\ reduced.tObs \subseteq firable_obs(whole)
=============================================================================

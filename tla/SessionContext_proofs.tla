------------------------- MODULE SessionContext_proofs -------------------------
(***************************************************************************)
(* Proofs about SessionContext, for any number of processes, runs and      *)
(* workspaces, conversations of any length and any limits: what the two    *)
(* loops over the conversation select, what a history therefore consists   *)
(* of, and which directories stay.                                         *)
(***************************************************************************)
EXTENDS SessionContext, FoldLemmas

---------------------------------------------------------------------------
(***************************************************************************)
(* The two loops of _load_conversation_context.  Their steps keep the sets *)
(* Found and Chosen, so the folds are loops with a state after every       *)
(* message and after every turn.                                           *)
(***************************************************************************)
LEMMA FindTurnType ==
  ASSUME NEW found \in Found, NEW m \in Message
  PROVE  FindTurn(found, m) \in Found
<1>1. CASE m.role = "user"
  BY <1>1 DEF FindTurn, Found
<1>2. CASE m.role # "user" /\ \E u \in found.pending : u.run = m.run
  <2> DEFINE prompt == CHOOSE u \in found.pending : u.run = m.run
             turn == [run |-> m.run, size |-> prompt.size + m.size]
  <2>1. prompt \in found.pending
    BY <1>2
  <2>2. prompt \in Message /\ found.pending \ {prompt} \in SUBSET Message
    BY <2>1 DEF Found
  <2>3. turn \in Turn
    BY <2>2 DEF Message, Turn
  <2>4. FindTurn(found, m) =
          [pending |-> found.pending \ {prompt}, turns |-> Append(found.turns, turn)]
    BY <1>2 DEF FindTurn
  <2> HIDE DEF prompt, turn
  <2>5. Append(found.turns, turn) \in Seq(Turn)
    BY <2>3 DEF Found
  <2> QED
    BY <2>2, <2>4, <2>5 DEF Found
<1>3. CASE m.role # "user" /\ ~\E u \in found.pending : u.run = m.run
  BY <1>3 DEF FindTurn
<1> QED
  BY <1>1, <1>2, <1>3

\* The first loop, message by message.
LEMMA CompleteTurnsLoop ==
  ASSUME NEW table \in Seq(Message)
  PROVE  \E found \in [0..Len(table) -> Found] :
           /\ found[0] = NothingFound
           /\ \A k \in 1..Len(table) : found[k] = FindTurn(found[k - 1], table[k])
           /\ CompleteTurns(table) = found[Len(table)].turns
<1> DEFINE n == Len(table)
           Iterates(f) == f = [s \in SUBSET DOMAIN table |->
                                 IF s = {} THEN NothingFound
                                 ELSE FindTurn(f[s \ {Max(s)}], table[Max(s)])]
           iter == CHOOSE f : Iterates(f)
           g == [x \in (1..n) \X Found |-> FindTurn(x[2], table[x[1]])]
<1>1. n \in Nat /\ DOMAIN table = 1..n /\ \A i \in 1..n : table[i] \in Message
  OBVIOUS
<1>2. NothingFound \in Found
  BY DEF NothingFound, Found
<1>3. g \in [(1..n) \X Found -> Found]
  BY <1>1, FindTurnType
<1>4. ASSUME NEW k \in 1..n, NEW x \in Found PROVE g[k, x] = FindTurn(x, table[k])
  OBVIOUS
<1> HIDE DEF g
<1>5. \A s \in SUBSET (1..n) : s # {} => Max(s) \in 1..n
  BY <1>1, MaxOfSubset
<1>6. PICK F : IsFold(F, Found, n, NothingFound, g)
  BY <1>1, <1>2, <1>3, FoldExists
<1>7. \A s \in SUBSET (1..n) : s # {} => F[s] = FindTurn(F[s \ {Max(s)}], table[Max(s)])
  BY <1>4, <1>5, <1>6 DEF IsFold
<1>8. Iterates(F)
  BY <1>1, <1>6, <1>7 DEF IsFold
<1>9. Iterates(iter)
  BY <1>8
<1>10. CompleteTurns(table) = iter[1..n].turns
  BY <1>1 DEF CompleteTurns, FoldLeft, MapThenFoldSet
<1> HIDE DEF iter
<1>11. iter[{}] = NothingFound
  BY <1>9
<1>12. Iterated(iter, Found, n, NothingFound, g)
  BY <1>1, <1>4, <1>5, <1>9, <1>11 DEF Iterated
<1>13. PICK found : IsLoop(found, Found, n, NothingFound, g, iter[1..n])
  BY <1>1, <1>2, <1>3, <1>12, FoldLoop
<1>14. ASSUME NEW k \in 1..n PROVE found[k] = FindTurn(found[k - 1], table[k])
  <2>1. k - 1 \in 0..n
    BY <1>1
  <2> QED
    BY <1>4, <1>13, <2>1 DEF IsLoop
<1> QED
  BY <1>10, <1>13, <1>14 DEF IsLoop

\* A turn more keeps what the second loop has chosen a record of its kind.
LEMMA ChooseTurnType ==
  ASSUME NEW found \in Chosen, NEW turn \in Turn, NEW limit \in [turns : Nat, chars : Nat]
  PROVE  ChooseTurn(found, turn, limit) \in Chosen
<1>1. found.chosen \in Seq(Turn) /\ found.size \in Nat /\ turn.size \in Nat
  BY DEF Chosen, Turn
<1>2. <<turn>> \o found.chosen \in Seq(Turn)
  BY <1>1
<1>3. ChooseTurn(found, turn, limit) \in
        {[found EXCEPT !.open = FALSE],
         [found EXCEPT !.chosen = <<turn>> \o @, !.size = @ + turn.size]}
  BY DEF ChooseTurn
<1>4. [found EXCEPT !.open = FALSE] \in Chosen
  BY DEF Chosen
<1>5. [found EXCEPT !.chosen = <<turn>> \o @, !.size = @ + turn.size] \in Chosen
  <2>1. found.size + turn.size \in Nat
    BY <1>1
  <2> QED
    BY <1>2, <2>1 DEF Chosen
<1> QED
  BY <1>3, <1>4, <1>5

\* The second loop, from the newest turn to the oldest.
LEMMA SelectLoop ==
  ASSUME NEW table \in Seq(Message), NEW limit \in [turns : Nat, chars : Nat],
         NEW turns \in Seq(Turn), turns = CompleteTurns(table)
  PROVE  \E found \in [0..Len(turns) -> Chosen] :
           /\ found[0] = NothingChosen
           /\ \A k \in 1..Len(turns) :
                found[k] = ChooseTurn(found[k - 1], turns[Len(turns) - k + 1], limit)
           /\ Select(table, limit) = found[Len(turns)].chosen
<1> DEFINE n == Len(turns)
           back == Reverse(turns)
           Iterates(f) == f = [s \in SUBSET DOMAIN back |->
                                 IF s = {} THEN NothingChosen
                                 ELSE ChooseTurn(f[s \ {Max(s)}], back[Max(s)], limit)]
           iter == CHOOSE f : Iterates(f)
           g == [x \in (1..n) \X Chosen |-> ChooseTurn(x[2], back[x[1]], limit)]
<1>1. n \in Nat /\ DOMAIN back = 1..n
      /\ \A i \in 1..n : back[i] = turns[n - i + 1] /\ back[i] \in Turn
  BY DEF Reverse
<1>2. NothingChosen \in Chosen
  BY DEF NothingChosen, Chosen
<1>3. Select(table, limit) = iter[1..n].chosen
  BY <1>1 DEF Select, FoldLeft, MapThenFoldSet
<1> HIDE DEF back
<1>4. g \in [(1..n) \X Chosen -> Chosen]
  BY <1>1, ChooseTurnType
<1>5. ASSUME NEW k \in 1..n, NEW x \in Chosen PROVE g[k, x] = ChooseTurn(x, back[k], limit)
  OBVIOUS
<1> HIDE DEF g
<1>6. \A s \in SUBSET (1..n) : s # {} => Max(s) \in 1..n
  BY <1>1, MaxOfSubset
<1>7. PICK F : IsFold(F, Chosen, n, NothingChosen, g)
  BY <1>1, <1>2, <1>4, FoldExists
<1>8. \A s \in SUBSET (1..n) : s # {} =>
        F[s] = ChooseTurn(F[s \ {Max(s)}], back[Max(s)], limit)
  BY <1>5, <1>6, <1>7 DEF IsFold
<1>9. Iterates(F)
  BY <1>1, <1>7, <1>8 DEF IsFold
<1>10. Iterates(iter)
  BY <1>9
<1> HIDE DEF iter
<1>11. iter[{}] = NothingChosen
  BY <1>10
<1>12. Iterated(iter, Chosen, n, NothingChosen, g)
  BY <1>1, <1>5, <1>6, <1>10, <1>11 DEF Iterated
<1>13. PICK found : IsLoop(found, Chosen, n, NothingChosen, g, iter[1..n])
  BY <1>1, <1>2, <1>4, <1>12, FoldLoop
<1>14. ASSUME NEW k \in 1..n PROVE found[k] = ChooseTurn(found[k - 1], turns[n - k + 1], limit)
  <2>1. k - 1 \in 0..n
    BY <1>1
  <2> QED
    BY <1>1, <1>5, <1>13, <2>1 DEF IsLoop
<1> QED
  BY <1>3, <1>13, <1>14 DEF IsLoop

---------------------------------------------------------------------------
(***************************************************************************)
(* The first loop.  Its invariant FoundAfter says which prompts wait for   *)
(* an answer after k messages and which turns are complete, in the order   *)
(* of their answers.                                                       *)
(***************************************************************************)
\* Every prompt has the size of its run's prompt, and a run has one prompt.
Orderly(table) ==
  /\ table \in Seq(Message)
  /\ \A i \in DOMAIN table : table[i].role = "user" => table[i].size = PromptSize[table[i].run]
  /\ \A i, j \in DOMAIN table :
       table[i].role = "user" /\ table[j].role = "user" /\ table[i].run = table[j].run => i = j

\* Position i holds a prompt without an answer up to position k.
Waits(table, i, k) ==
  /\ table[i].role = "user"
  /\ \A j \in (i + 1)..k : table[j].run # table[i].run

\* The first loop after k messages: the prompts without an answer, and the turns completed
\* so far, in the order of their answers.
FoundAfter(table, k, found) ==
  /\ \A m : m \in found.pending <=> \E i \in 1..k : Waits(table, i, k) /\ table[i] = m
  /\ \E c : /\ Lists(c, Len(found.turns), Completions(table) \cap (1..k))
            /\ \A i \in 1..Len(found.turns) : found.turns[i] = TurnAt(table, c[i])

\* A position completes a turn when a prompt of its run waits before it.
LEMMA CompletionIsAwaited ==
  ASSUME NEW table, Orderly(table), NEW k \in Nat, k + 1 \in DOMAIN table
  PROVE  k + 1 \in Completions(table) <=>
           /\ table[k + 1].role = "assistant"
           /\ \E i \in 1..k : Waits(table, i, k) /\ table[i].run = table[k + 1].run
<1>1. (k + 1) - 1 = k
  OBVIOUS
<1> QED
  BY <1>1 DEF Completions, Waits

\* One message keeps the first loop's invariant.
LEMMA FindTurnStep ==
  ASSUME NEW table, Orderly(table), NEW k \in Nat, k + 1 \in DOMAIN table,
         NEW found \in Found, FoundAfter(table, k, found)
  PROVE  FoundAfter(table, k + 1, FindTurn(found, table[k + 1]))
<1> DEFINE m == table[k + 1]
           next == FindTurn(found, m)
           C == Completions(table)
<1>1. /\ m \in Message /\ (m.role = "user" \/ m.role = "assistant") /\ "user" # "assistant"
      /\ 1..(k + 1) \subseteq DOMAIN table
      /\ \A i \in DOMAIN table : table[i] \in Message
  <2>1. \A i \in DOMAIN table : table[i] \in Message
    BY DEF Orderly
  <2>2. m \in Message
    BY <2>1
  <2>3. (m.role = "user" \/ m.role = "assistant") /\ "user" # "assistant"
    BY <2>2 DEF Message
  <2>4. 1..(k + 1) \subseteq DOMAIN table
    BY DEF Orderly
  <2> QED
    BY <2>1, <2>2, <2>3, <2>4
<1>2. \A i \in 1..(k + 1) : i \in 1..k \/ i = k + 1
  OBVIOUS
<1>3. \A i \in 1..k : Waits(table, i, k + 1) <=> Waits(table, i, k) /\ table[i].run # m.run
  BY DEF Waits
<1>4. Waits(table, k + 1, k + 1) <=> m.role = "user"
  BY DEF Waits
<1>5. PICK c : /\ Lists(c, Len(found.turns), C \cap (1..k))
               /\ \A i \in 1..Len(found.turns) : found.turns[i] = TurnAt(table, c[i])
  BY DEF FoundAfter
<1>6. \A u : u \in found.pending <=> \E i \in 1..k : Waits(table, i, k) /\ table[i] = u
  BY DEF FoundAfter
<1>7. k + 1 \notin C => C \cap (1..(k + 1)) = C \cap (1..k)
  BY <1>2
<1>8. k + 1 \in C => C \cap (1..(k + 1)) = (C \cap (1..k)) \cup {k + 1}
  BY <1>2
<1>9. k + 1 \in C <=> m.role = "assistant" /\ \E u \in found.pending : u.run = m.run
  BY <1>6, CompletionIsAwaited
<1>10. CASE m.role = "user"
  <2>1. next = [found EXCEPT !.pending = @ \cup {m}]
    BY <1>10 DEF FindTurn
  <2>2. next.pending = found.pending \cup {m} /\ next.turns = found.turns
    BY <2>1 DEF Found
  <2>3. \A i \in 1..k : table[i].role = "user" => table[i].run # m.run
    BY <1>1, <1>10 DEF Orderly
  <2>4. \A i \in 1..k : Waits(table, i, k + 1) <=> Waits(table, i, k)
    BY <1>3, <2>3 DEF Waits
  <2>5. k + 1 \in 1..(k + 1) /\ 1..k \subseteq 1..(k + 1)
    OBVIOUS
  <2> HIDE DEF next, m, C
  <2>6. \A u : u \in next.pending <=> \E i \in 1..(k + 1) : Waits(table, i, k + 1) /\ table[i] = u
    BY <1>2, <1>4, <1>6, <1>10, <2>2, <2>4, <2>5 DEF m
  <2>7. Lists(c, Len(next.turns), C \cap (1..(k + 1)))
    BY <1>1, <1>5, <1>7, <1>9, <1>10, <2>2
  <2>8. \A i \in 1..Len(next.turns) : next.turns[i] = TurnAt(table, c[i])
    BY <1>5, <2>2
  <2> QED
    BY <2>6, <2>7, <2>8 DEF FoundAfter, next, m, C
<1>11. CASE m.role # "user" /\ \E u \in found.pending : u.run = m.run
  <2> DEFINE prompt == CHOOSE u \in found.pending : u.run = m.run
             turn == [run |-> m.run, size |-> prompt.size + m.size]
             d == [i \in 1..(Len(found.turns) + 1) |->
                     IF i = Len(found.turns) + 1 THEN k + 1 ELSE c[i]]
  <2>1. prompt \in found.pending /\ prompt.run = m.run
    BY <1>11
  <2>2. next = [pending |-> found.pending \ {prompt}, turns |-> Append(found.turns, turn)]
    BY <1>11 DEF FindTurn
  <2>3. next.pending = found.pending \ {prompt} /\ next.turns = Append(found.turns, turn)
    BY <2>2
  <2>4. PICK i \in 1..k : Waits(table, i, k) /\ table[i] = prompt
    BY <1>6, <2>1
  <2>5. prompt.size = PromptSize[m.run] /\ turn = TurnAt(table, k + 1)
    <3> HIDE DEF prompt
    <3>1. i \in 1..(k + 1)
      OBVIOUS
    <3>2. i \in DOMAIN table /\ table[i].role = "user"
      BY <1>1, <2>4, <3>1 DEF Waits
    <3>3. table[i].size = PromptSize[table[i].run]
      BY <3>2 DEF Orderly
    <3> QED
      BY <2>1, <2>4, <3>3 DEF TurnAt
  <2>6. \A j \in 1..k : Waits(table, j, k) /\ table[j].run = m.run => table[j] = prompt
    BY <1>1, <2>1, <2>4 DEF Orderly, Waits
  <2>7. found.turns \in Seq(Turn) /\ Len(found.turns) \in Nat
    BY DEF Found
  <2>8. Lists(d, Len(found.turns) + 1, C \cap (1..(k + 1)))
    <3>1. k + 1 \in C
      BY <1>1, <1>9, <1>11
    <3>2. k + 1 \in Nat /\ C \cap (1..k) \subseteq Nat /\ \A y \in C \cap (1..k) : y < k + 1
      OBVIOUS
    <3> HIDE DEF C
    <3> QED
      BY <1>5, <1>8, <3>1, <3>2, ListsOneMore
  <2> HIDE DEF turn, prompt, next, C
  <2>9. Len(next.turns) = Len(found.turns) + 1
        /\ next.turns[Len(found.turns) + 1] = turn
        /\ \A j \in 1..Len(found.turns) : next.turns[j] = found.turns[j]
    BY <2>3, <2>7
  <2>10. \A j \in 1..Len(next.turns) : next.turns[j] = TurnAt(table, d[j])
    BY <1>5, <2>5, <2>7, <2>9
  <2> HIDE DEF m, d
  <2>11. \A u : u \in next.pending <=> \E j \in 1..(k + 1) : Waits(table, j, k + 1) /\ table[j] = u
    <3>1. \A j \in 1..k : Waits(table, j, k + 1) <=> Waits(table, j, k) /\ table[j] # prompt
      BY <1>3, <2>1, <2>6
    <3>2. ~Waits(table, k + 1, k + 1)
      BY <1>4, <1>11
    <3>3. 1..k \subseteq 1..(k + 1)
      OBVIOUS
    <3> QED
      BY <1>2, <1>6, <2>3, <3>1, <3>2, <3>3
  <2>12. Lists(d, Len(next.turns), C \cap (1..(k + 1)))
    BY <2>8, <2>9
  <2> QED
    BY <2>10, <2>11, <2>12 DEF FoundAfter, next, m, C
<1>12. CASE m.role # "user" /\ ~\E u \in found.pending : u.run = m.run
  <2>1. next = found
    BY <1>12 DEF FindTurn
  <2>2. \A j \in 1..k : Waits(table, j, k + 1) <=> Waits(table, j, k)
    BY <1>3, <1>6, <1>12
  <2>3. ~Waits(table, k + 1, k + 1) /\ 1..k \subseteq 1..(k + 1)
    BY <1>4, <1>12
  <2> HIDE DEF next, m, C
  <2>4. \A u : u \in next.pending <=> \E j \in 1..(k + 1) : Waits(table, j, k + 1) /\ table[j] = u
    BY <1>2, <1>6, <2>1, <2>2, <2>3
  <2>5. Lists(c, Len(next.turns), C \cap (1..(k + 1)))
    BY <1>5, <1>7, <1>9, <1>12, <2>1
  <2> QED
    BY <1>5, <2>1, <2>4, <2>5 DEF FoundAfter, next, m, C
<1> QED
  BY <1>10, <1>11, <1>12

\* The first loop finds the completed turns, in the order of their answers.
LEMMA CompleteTurnsAre ==
  ASSUME NEW table, Orderly(table)
  PROVE  /\ CompleteTurns(table) \in Seq(Turn)
         /\ \E c : /\ Lists(c, Len(CompleteTurns(table)), Completions(table))
                   /\ \A i \in 1..Len(CompleteTurns(table)) :
                        CompleteTurns(table)[i] = TurnAt(table, c[i])
<1> DEFINE n == Len(table)
<1>1. table \in Seq(Message) /\ n \in Nat /\ DOMAIN table = 1..n
  BY DEF Orderly
<1>2. PICK found \in [0..n -> Found] :
        /\ found[0] = NothingFound
        /\ \A k \in 1..n : found[k] = FindTurn(found[k - 1], table[k])
        /\ CompleteTurns(table) = found[n].turns
  BY <1>1, CompleteTurnsLoop
<1> DEFINE P == {k \in Nat : k <= n => FoundAfter(table, k, found[k])}
<1>3. 0 \in P
  <2>1. \A i : i \notin 1..0
    OBVIOUS
  <2>2. found[0].pending = {} /\ found[0].turns = <<>> /\ Len(<<>>) = 0
    BY <1>2 DEF NothingFound
  <2>3. Lists(<<>>, 0, Completions(table) \cap (1..0))
    BY <2>1 DEF Lists
  <2>4. FoundAfter(table, 0, found[0])
    BY <2>1, <2>2, <2>3 DEF FoundAfter
  <2> QED
    BY <2>4
<1>4. ASSUME NEW k \in Nat, k \in P PROVE k + 1 \in P
  <2> SUFFICES ASSUME k + 1 <= n PROVE FoundAfter(table, k + 1, found[k + 1])
    OBVIOUS
  <2>1. k + 1 \in 1..n /\ (k + 1) - 1 = k /\ k \in 0..n /\ FoundAfter(table, k, found[k])
    BY <1>1, <1>4
  <2>2. found[k + 1] = FindTurn(found[k], table[k + 1]) /\ found[k] \in Found
    BY <1>2, <2>1
  <2> QED
    BY <1>1, <2>1, <2>2, FindTurnStep
<1> HIDE DEF P
<1>5. n \in P
  BY <1>1, <1>3, <1>4, NatSet
<1>6. FoundAfter(table, n, found[n])
  BY <1>1, <1>5 DEF P
<1>7. Completions(table) \cap (1..n) = Completions(table)
  BY <1>1 DEF Completions
<1>8. found[n] \in Found
  BY <1>1, <1>2
<1> QED
  BY <1>2, <1>6, <1>7, <1>8 DEF FoundAfter, Found

---------------------------------------------------------------------------
(***************************************************************************)
(* The second loop.  Its invariant ChosenAfter says that after k turns,    *)
(* from the newest back, the chosen ones are the newest that fit both      *)
(* limits.                                                                 *)
(***************************************************************************)
\* w has the sizes of the turns that are completed at the table's positions.
Sizes(w, n, table) ==
  w \in [1..n -> Nat] /\ \A i \in 1..n : w[i] = TurnAt(table, i).size

\* SizeOf adds the sizes of the turns, in whatever order it takes the positions.
LEMMA SizeOfIsSum ==
  ASSUME NEW table, NEW n \in Nat, NEW w, Sizes(w, n, table), NEW W, Sums(W, n, w), NEW S \in SUBSET (1..n)
  PROVE  SizeOf(table, S) = W[S]
<1> DEFINE Some(s) == CHOOSE x \in s : TRUE
           Adds(f) == f = [s \in SUBSET S |->
                             IF s = {} THEN 0 ELSE TurnAt(table, Some(s)).size + f[s \ {Some(s)}]]
           iter == CHOOSE f : Adds(f)
           restricted == [s \in SUBSET S |-> W[s]]
<1>1. SizeOf(table, S) = iter[S]
  BY DEF SizeOf, MapThenSumSet, MapThenFoldSet
<1>2. \A s \in SUBSET S : s \in SUBSET (1..n)
  OBVIOUS
<1>3. \A s \in SUBSET S : s # {} => Some(s) \in s /\ Some(s) \in 1..n /\ s \ {Some(s)} \in SUBSET S
  BY <1>2
<1> HIDE DEF Some
<1>4. ASSUME NEW s \in SUBSET S, s # {}
      PROVE  restricted[s] = TurnAt(table, Some(s)).size + restricted[s \ {Some(s)}]
  <2>1. W[s] = w[Some(s)] + W[s \ {Some(s)}]
    BY <1>2, <1>3, <1>4 DEF Sums
  <2>2. w[Some(s)] = TurnAt(table, Some(s)).size
    BY <1>3, <1>4 DEF Sizes
  <2>3. restricted[s] = W[s] /\ restricted[s \ {Some(s)}] = W[s \ {Some(s)}]
    BY <1>3, <1>4
  <2> QED
    BY <2>1, <2>2, <2>3
<1>5. restricted[{}] = 0
  BY DEF Sums
<1>6. Adds(restricted)
  <2> HIDE DEF restricted
  <2>1. \A s \in SUBSET S : restricted[s] =
          IF s = {} THEN 0 ELSE TurnAt(table, Some(s)).size + restricted[s \ {Some(s)}]
    BY <1>4, <1>5
  <2>2. restricted = [s \in SUBSET S |-> restricted[s]]
    BY DEF restricted
  <2> QED
    BY <2>1, <2>2
<1>7. Adds(iter)
  BY <1>6
<1> HIDE DEF iter, restricted
<1>8. \A s \in SUBSET S : iter[s] =
        IF s = {} THEN 0 ELSE TurnAt(table, Some(s)).size + iter[s \ {Some(s)}]
  BY <1>7
<1>9. IsFiniteSet(S) /\ Cardinality(S) \in Nat
  <2>1. IsFiniteSet(1..n)
    BY FS_Interval
  <2>2. IsFiniteSet(S)
    BY <2>1, FS_Subset
  <2> QED
    BY <2>2, FS_CardinalityType
<1> DEFINE P == {k \in Nat : \A s \in SUBSET S : Cardinality(s) = k => iter[s] = W[s]}
<1>10. \A s \in SUBSET S : IsFiniteSet(s)
  BY <1>9, FS_Subset
<1>11. 0 \in P
  <2>1. \A s \in SUBSET S : Cardinality(s) = 0 => s = {}
    BY <1>10, FS_EmptySet
  <2>2. iter[{}] = 0 /\ W[{}] = 0
    BY <1>8 DEF Sums
  <2> QED
    BY <2>1, <2>2
<1>12. ASSUME NEW k \in Nat, k \in P PROVE k + 1 \in P
  <2> SUFFICES ASSUME NEW s \in SUBSET S, Cardinality(s) = k + 1 PROVE iter[s] = W[s]
    OBVIOUS
  <2>1. s # {}
    <3>1. Cardinality({}) = 0 /\ k + 1 # 0
      BY FS_EmptySet
    <3> QED
      BY <3>1
  <2>2. Some(s) \in s /\ Some(s) \in 1..n /\ s \ {Some(s)} \in SUBSET S
    BY <1>3, <2>1
  <2>3. Cardinality(s \ {Some(s)}) = k
    <3>1. IsFiniteSet(s)
      BY <1>10
    <3>2. Cardinality(s \ {Some(s)}) = Cardinality(s) - 1
      BY <2>2, <3>1, FS_RemoveElement
    <3> QED
      BY <3>2
  <2>4. iter[s \ {Some(s)}] = W[s \ {Some(s)}]
    BY <1>12, <2>2, <2>3
  <2>5. W[s] = w[Some(s)] + W[s \ {Some(s)}] /\ w[Some(s)] = TurnAt(table, Some(s)).size
    BY <1>2, <2>2 DEF Sums, Sizes
  <2> QED
    BY <1>8, <2>1, <2>4, <2>5
<1> HIDE DEF P
<1>13. Cardinality(S) \in P
  BY <1>9, <1>11, <1>12, NatSet
<1> QED
  BY <1>1, <1>13 DEF P

\* The turns from position a on are within both limits; room[a] is their size.
Fits(n, room, limit, a) == n - a + 1 <= limit.turns /\ room[a] <= limit.chars

\* room adds the sizes of the n turns from the last one back.
Rooms(room, n, turns) ==
  /\ room \in [1..(n + 1) -> Nat] /\ room[n + 1] = 0
  /\ \A a \in 1..n : room[a] = turns[a].size + room[a + 1]

\* The second loop after k turns: the chosen ones are the newest, all of them fit, and of
\* the turns it has passed none other does.
ChosenAfter(turns, room, limit, k, found) ==
  LET n == Len(turns)  m == Len(found.chosen) IN
  /\ m <= k /\ (found.open <=> m = k)
  /\ \A i \in 1..m : found.chosen[i] = turns[n - m + i]
  /\ found.size = room[n - m + 1]
  /\ \A a \in (n - m + 1)..n : Fits(n, room, limit, a)
  /\ \A a \in (n - k + 1)..(n - m) : ~Fits(n, room, limit, a)

\* A turn in front of a sequence.
LEMMA PushFront ==
  ASSUME NEW s \in Seq(Turn), NEW t
  PROVE  /\ Len(<<t>> \o s) = Len(s) + 1 /\ (<<t>> \o s)[1] = t
         /\ \A i \in 2..(Len(s) + 1) : (<<t>> \o s)[i] = s[i - 1]
<1>1. Len(s) \in Nat /\ <<t>> \in Seq({t}) /\ Len(<<t>>) = 1
  OBVIOUS
<1>2. Len(<<t>> \o s) = Len(s) + 1
  BY <1>1
<1>3. \A i \in 2..(Len(s) + 1) : (<<t>> \o s)[i] = s[i - 1]
  BY <1>1
<1> QED
  BY <1>1, <1>2, <1>3

\* One turn keeps the second loop's invariant.
LEMMA ChooseTurnStep ==
  ASSUME NEW turns \in Seq(Turn), NEW room, Rooms(room, Len(turns), turns),
         NEW limit \in [turns : Nat, chars : Nat], NEW k \in Nat, k + 1 <= Len(turns),
         NEW found \in Chosen, ChosenAfter(turns, room, limit, k, found)
  PROVE  ChosenAfter(turns, room, limit, k + 1,
                     ChooseTurn(found, turns[Len(turns) - (k + 1) + 1], limit))
<1> DEFINE n == Len(turns)
           m == Len(found.chosen)
           turn == turns[n - (k + 1) + 1]
           next == ChooseTurn(found, turn, limit)
           Full == ~found.open \/ m >= limit.turns \/ found.size + turn.size > limit.chars
<1>1. /\ n \in Nat /\ m \in Nat /\ found.chosen \in Seq(Turn) /\ found.size \in Nat
      /\ limit.turns \in Nat /\ limit.chars \in Nat /\ found.open \in BOOLEAN
      /\ k + 1 <= n
  BY DEF Chosen
<1>2. /\ m <= k /\ (found.open <=> m = k)
      /\ \A i \in 1..m : found.chosen[i] = turns[n - m + i]
      /\ found.size = room[n - m + 1]
      /\ \A a \in (n - m + 1)..n : Fits(n, room, limit, a)
      /\ \A a \in (n - k + 1)..(n - m) : ~Fits(n, room, limit, a)
  BY DEF ChosenAfter
<1>3. ASSUME NEW x, NEW l, l = Len(x.chosen), l <= k + 1, x.open <=> l = k + 1,
             \A i \in 1..l : x.chosen[i] = turns[n - l + i],
             x.size = room[n - l + 1],
             \A a \in (n - l + 1)..n : Fits(n, room, limit, a),
             \A a \in (n - (k + 1) + 1)..(n - l) : ~Fits(n, room, limit, a)
      PROVE  ChosenAfter(turns, room, limit, k + 1, x)
  BY <1>3 DEF ChosenAfter
<1>4. \A i \in 1..n : turns[i] \in Turn /\ turns[i].size \in Nat
  <2>1. \A i \in 1..n : turns[i] \in Turn
    OBVIOUS
  <2> QED
    BY <2>1 DEF Turn
<1>5. /\ \A a \in 1..(n + 1) : room[a] \in Nat
      /\ \A a \in 1..n : room[a] = turns[a].size + room[a + 1]
  BY DEF Rooms
<1>6. m = Len(found.chosen)
  OBVIOUS
<1> HIDE DEF n, m
<1>7. n - k \in 1..n /\ n - (k + 1) + 1 = n - k /\ (n - k) + 1 = n - k + 1
      /\ n - k + 1 \in 1..(n + 1) /\ n - k \in 1..(n + 1)
  BY <1>1
<1>8. turn = turns[n - k] /\ turn \in Turn /\ turn.size \in Nat
  BY <1>4, <1>7
<1> HIDE DEF turn
<1>9. room[n - k] = turn.size + room[n - k + 1] /\ room[n - k + 1] \in Nat
      /\ room[n - k] \in Nat
  BY <1>5, <1>7, <1>8
<1>10. CASE Full
  <2>1. next = [found EXCEPT !.open = FALSE]
    BY <1>6, <1>10 DEF ChooseTurn
  <2>2. next.open = FALSE /\ next.chosen = found.chosen /\ next.size = found.size
    BY <2>1 DEF Chosen
  <2>3. ~Fits(n, room, limit, n - k)
    <3>1. CASE m = k
      <4>1. found.size = room[n - k + 1]
        BY <1>2, <3>1
      <4>2. m >= limit.turns \/ room[n - k] > limit.chars
        <5>1. found.open /\ found.size + turn.size = room[n - k]
          BY <1>2, <1>8, <1>9, <3>1, <4>1
        <5> QED
          BY <1>10, <5>1
      <4>3. n - (n - k) + 1 = m + 1
        BY <1>1, <3>1
      <4> QED
        BY <1>1, <1>9, <4>2, <4>3 DEF Fits
    <3>2. CASE m # k
      <4>1. n - k + 1 \in (n - k + 1)..(n - m)
        BY <1>1, <1>2, <3>2
      <4>2. ~Fits(n, room, limit, n - k + 1)
        BY <1>2, <4>1
      <4>3. room[n - k] >= room[n - k + 1]
        BY <1>8, <1>9
      <4>4. n - (n - k) + 1 = k + 1 /\ n - (n - k + 1) + 1 = k
        BY <1>1
      <4> QED
        BY <1>1, <1>9, <4>2, <4>3, <4>4 DEF Fits
    <3> QED
      BY <3>1, <3>2
  <2>4. \A a \in (n - (k + 1) + 1)..(n - m) : a = n - k \/ a \in (n - k + 1)..(n - m)
    BY <1>1
  <2>5. m <= k + 1 /\ m # k + 1
    BY <1>1, <1>2
  <2> HIDE DEF next
  <2>6. \A a \in (n - (k + 1) + 1)..(n - m) : ~Fits(n, room, limit, a)
    BY <1>2, <2>3, <2>4
  <2>7. ChosenAfter(turns, room, limit, k + 1, next)
    <3>1. Len(next.chosen) = m /\ (next.open <=> m = k + 1)
      BY <1>6, <2>2, <2>5
    <3>2. \A i \in 1..m : next.chosen[i] = turns[n - m + i]
      BY <1>2, <2>2
    <3>3. next.size = room[n - m + 1]
      BY <1>2, <2>2
    <3> QED
      BY <1>2, <1>3, <2>5, <2>6, <3>1, <3>2, <3>3
  <2> QED
    BY <2>7 DEF next, turn, n
<1>11. CASE ~Full
  <2>1. next = [found EXCEPT !.chosen = <<turn>> \o @, !.size = @ + turn.size]
    BY <1>6, <1>11 DEF ChooseTurn
  <2>2. next.open = found.open /\ next.chosen = <<turn>> \o found.chosen
        /\ next.size = found.size + turn.size
    BY <2>1 DEF Chosen
  <2>3. m = k /\ found.open /\ ~(m >= limit.turns) /\ ~(found.size + turn.size > limit.chars)
    BY <1>2, <1>11
  <2> HIDE DEF next
  <2>4. Len(next.chosen) = k + 1 /\ next.chosen[1] = turn
        /\ \A i \in 2..(k + 1) : next.chosen[i] = found.chosen[i - 1]
    <3>1. /\ Len(<<turn>> \o found.chosen) = Len(found.chosen) + 1
          /\ (<<turn>> \o found.chosen)[1] = turn
          /\ \A i \in 2..(Len(found.chosen) + 1) :
               (<<turn>> \o found.chosen)[i] = found.chosen[i - 1]
      BY <1>1, PushFront
    <3>2. Len(found.chosen) = k
      BY <1>6, <2>3
    <3> QED
      BY <2>2, <3>1, <3>2
  <2>5. \A i \in 1..(k + 1) : next.chosen[i] = turns[n - (k + 1) + i]
    <3> SUFFICES ASSUME NEW i \in 1..(k + 1) PROVE next.chosen[i] = turns[n - (k + 1) + i]
      OBVIOUS
    <3>1. CASE i = 1
      BY <1>7, <1>8, <2>4, <3>1
    <3>2. CASE i # 1
      <4>1. i \in 2..(k + 1) /\ i - 1 \in 1..m /\ n - m + (i - 1) = n - (k + 1) + i
        BY <1>1, <2>3, <3>2
      <4>2. found.chosen[i - 1] = turns[n - m + (i - 1)]
        BY <1>2, <4>1
      <4> QED
        BY <2>4, <4>1, <4>2
    <3> QED
      BY <3>1, <3>2
  <2>6. found.size = room[n - k + 1] /\ next.size = room[n - k]
    <3>1. found.size = room[n - k + 1]
      BY <1>2, <2>3
    <3> QED
      BY <1>8, <1>9, <2>2, <3>1
  <2>7. Fits(n, room, limit, n - k)
    <3>1. n - (n - k) + 1 = k + 1 /\ k + 1 <= limit.turns
      BY <1>1, <2>3
    <3>2. room[n - k] <= limit.chars
      BY <1>1, <1>8, <1>9, <2>3, <2>6
    <3> QED
      BY <3>1, <3>2 DEF Fits
  <2>8. \A a \in (n - (k + 1) + 1)..n : a = n - k \/ a \in (n - m + 1)..n
    BY <1>1, <2>3
  <2>9. \A a \in (n - (k + 1) + 1)..n : Fits(n, room, limit, a)
    BY <1>2, <2>7, <2>8
  <2>10. \A a \in (n - (k + 1) + 1)..(n - (k + 1)) : FALSE
    BY <1>1
  <2>11. ChosenAfter(turns, room, limit, k + 1, next)
    <3>1. next.size = room[n - (k + 1) + 1] /\ next.open
      BY <1>7, <2>2, <2>3, <2>6
    <3>2. k + 1 = Len(next.chosen) /\ k + 1 <= k + 1
      BY <2>4
    <3> QED
      BY <1>3, <2>5, <2>9, <2>10, <3>1, <3>2
  <2> QED
    BY <2>11 DEF next, turn, n
<1> QED
  BY <1>10, <1>11

\* The turns of an orderly table, listed by position, with their sizes.
LEMMA TurnSizes ==
  ASSUME NEW table, Orderly(table), NEW j \in DOMAIN table
  PROVE  TurnAt(table, j).size \in Nat /\ table[j].run \in Runs
<1>1. table[j] \in Message
  BY DEF Orderly
<1>2. table[j].run \in Runs /\ table[j].size \in Nat
  BY <1>1 DEF Message
<1>3. PromptSize[table[j].run] \in Nat
  BY <1>2, SessionAssumption
<1> QED
  BY <1>2, <1>3 DEF TurnAt

\* What both loops select: the newest turns that fit, in the order of their answers.
LEMMA SelectIsNewestFitting ==
  ASSUME NEW table, Orderly(table), NEW limit \in [turns : Nat, chars : Nat]
  PROVE  /\ Select(table, limit) \in Seq(Turn)
         /\ Select(table, limit) = InOrder(table, Fitting(table, limit))
         /\ \A i \in 1..Len(Select(table, limit)) :
              \E j \in Completions(table) : Select(table, limit)[i] = TurnAt(table, j)
<1> DEFINE turns == CompleteTurns(table)
           n == Len(turns)
           N == Len(table)
           C == Completions(table)
           w == [i \in 1..N |-> TurnAt(table, i).size]
<1>1. table \in Seq(Message) /\ N \in Nat /\ DOMAIN table = 1..N
  BY DEF Orderly
<1>2. turns \in Seq(Turn) /\ n \in Nat
  BY CompleteTurnsAre
<1>3. PICK c : Lists(c, n, C) /\ \A i \in 1..n : turns[i] = TurnAt(table, c[i])
  BY CompleteTurnsAre
<1>4. C \subseteq 1..N /\ C \subseteq Nat
  BY <1>1 DEF Completions
<1>5. w \in [1..N -> Nat]
  BY <1>1, TurnSizes
<1>6. Sizes(w, N, table)
  BY <1>5 DEF Sizes
<1> HIDE DEF w
<1>7. PICK W : Sums(W, N, w)
  BY <1>1, <1>5, SumExists
<1> DEFINE Newer(a) == From(c, a, n)
           room == [a \in 1..(n + 1) |-> W[Newer(a)]]
<1>8. PICK found \in [0..n -> Chosen] :
        /\ found[0] = NothingChosen
        /\ \A k \in 1..n : found[k] = ChooseTurn(found[k - 1], turns[n - k + 1], limit)
        /\ Select(table, limit) = found[n].chosen
  BY <1>1, <1>2, SelectLoop
<1>9. c \in [1..n -> C]
  BY <1>3 DEF Lists
<1> HIDE DEF turns, n, N, C
<1>10. \A a \in 1..(n + 1) : Newer(a) \in SUBSET C /\ Newer(a) \in SUBSET (1..N)
  <2> SUFFICES ASSUME NEW a \in 1..(n + 1) PROVE Newer(a) \subseteq C
    BY <1>4
  <2>1. \A b \in a..n : b \in 1..n
    BY <1>2
  <2> QED
    BY <1>9, <2>1 DEF From
<1>11. ASSUME NEW a \in 1..n
       PROVE  /\ {k \in C : k >= c[a]} = Newer(a) /\ Newer(a) \ {c[a]} = Newer(a + 1)
              /\ c[a] \in Newer(a)
  <2>1. /\ \A k \in C : k >= c[a] <=> k \in Newer(a)
        /\ Newer(a) \ {c[a]} = Newer(a + 1) /\ c[a] \in Newer(a)
    BY <1>3, <1>4, NewerAre
  <2>2. a \in 1..(n + 1)
    BY <1>2
  <2> QED
    BY <1>10, <2>1, <2>2
<1>12. ASSUME NEW a \in 1..(n + 1) PROVE Cardinality(Newer(a)) = n - a + 1
  <2>1. Lists([i \in 1..(n - a + 1) |-> c[a - 1 + i]], n - a + 1, Newer(a))
    BY <1>3, ListsEnd
  <2>2. Newer(a) \subseteq Nat
    BY <1>4, <1>10
  <2> QED
    BY <2>1, <2>2, ListsCardinality
<1>13. Newer(n + 1) = {}
  BY <1>2 DEF From
<1> HIDE DEF Newer, room
<1>14. \A a \in 1..(n + 1) : room[a] = W[Newer(a)] /\ SizeOf(table, Newer(a)) = room[a]
  <2> SUFFICES ASSUME NEW a \in 1..(n + 1)
               PROVE  room[a] = W[Newer(a)] /\ SizeOf(table, Newer(a)) = room[a]
    OBVIOUS
  <2>1. room[a] = W[Newer(a)]
    BY DEF room
  <2>2. Newer(a) \in SUBSET (1..N)
    BY <1>10
  <2>3. SizeOf(table, Newer(a)) = W[Newer(a)]
    BY <1>1, <1>6, <1>7, <2>2, SizeOfIsSum
  <2> QED
    BY <2>1, <2>3
<1>15. room \in [1..(n + 1) -> Nat]
  BY <1>7, <1>10 DEF Sums, room
<1>16. Rooms(room, n, turns)
  <2>1. n + 1 \in 1..(n + 1)
    BY <1>2
  <2>2. room[n + 1] = 0
    BY <1>7, <1>13, <1>14, <2>1 DEF Sums
  <2>3. ASSUME NEW a \in 1..n PROVE room[a] = turns[a].size + room[a + 1]
    <3>1. a \in 1..(n + 1) /\ a + 1 \in 1..(n + 1)
      BY <1>2
    <3>2. W[Newer(a)] = w[c[a]] + W[Newer(a) \ {c[a]}]
      BY <1>7, <1>10, <1>11, <3>1 DEF Sums
    <3>3. w[c[a]] = turns[a].size
      BY <1>3, <1>4, <1>6, <1>9 DEF Sizes
    <3> QED
      BY <1>11, <1>14, <3>1, <3>2, <3>3
  <2> QED
    BY <1>15, <2>2, <2>3 DEF Rooms
<1> DEFINE P == {k \in Nat : k <= n => ChosenAfter(turns, room, limit, k, found[k])}
<1>17. 0 \in P
  <2>1. found[0].open /\ found[0].chosen = <<>> /\ found[0].size = 0 /\ Len(<<>>) = 0
    BY <1>8 DEF NothingChosen
  <2>2. room[n - 0 + 1] = 0
    BY <1>2, <1>16 DEF Rooms
  <2>3. ChosenAfter(turns, room, limit, 0, found[0])
    <3>1. \A a \in (n - 0 + 1)..n : FALSE
      BY <1>2
    <3>2. \A a \in (n - 0 + 1)..(n - 0) : FALSE
      BY <1>2
    <3>3. \A i \in 1..0 : FALSE
      OBVIOUS
    <3> QED
      BY <2>1, <2>2, <3>1, <3>2, <3>3 DEF ChosenAfter, n
  <2> QED
    BY <2>3
<1>18. ASSUME NEW k \in Nat, k \in P PROVE k + 1 \in P
  <2> SUFFICES ASSUME k + 1 <= n PROVE ChosenAfter(turns, room, limit, k + 1, found[k + 1])
    OBVIOUS
  <2>1. k + 1 \in 1..n /\ (k + 1) - 1 = k /\ k \in 0..n /\ k <= n
    BY <1>2
  <2>2. ChosenAfter(turns, room, limit, k, found[k]) /\ found[k] \in Chosen
    BY <1>8, <1>18, <2>1
  <2>3. found[k + 1] = ChooseTurn(found[k], turns[n - (k + 1) + 1], limit)
    BY <1>8, <2>1
  <2> QED
    BY <1>2, <1>16, <2>2, <2>3, ChooseTurnStep DEF n
<1> HIDE DEF P
<1>19. n \in P
  BY <1>2, <1>17, <1>18, NatSet
<1> DEFINE chosen == found[n].chosen
           m == Len(chosen)
<1>20. ChosenAfter(turns, room, limit, n, found[n])
  BY <1>2, <1>19 DEF P
<1>21. chosen \in Seq(Turn) /\ m \in Nat
  BY <1>2, <1>8 DEF Chosen
<1>22. /\ m <= n /\ \A i \in 1..m : chosen[i] = turns[n - m + i]
       /\ \A a \in (n - m + 1)..n : Fits(n, room, limit, a)
       /\ \A a \in (n - n + 1)..(n - m) : ~Fits(n, room, limit, a)
  BY <1>20 DEF ChosenAfter, n
<1>23. Select(table, limit) = chosen
  BY <1>8
<1> HIDE DEF chosen, m
<1>24. n - m + 1 \in 1..(n + 1) /\ n - (n - m + 1) + 1 = m /\ (n - m + 1) - 1 = n - m
  BY <1>2, <1>21, <1>22
<1>25. ASSUME NEW a \in 1..n
       PROVE  c[a] \in Fitting(table, limit) <=> a \in (n - m + 1)..n
  <2>1. c[a] \in Fitting(table, limit) <=> Fits(n, room, limit, a)
    <3>1. a \in 1..(n + 1) /\ c[a] \in C
      BY <1>2, <1>9
    <3> QED
      BY <1>11, <1>12, <1>14, <3>1 DEF Fitting, Fits, C
  <2>2. a \in (n - m + 1)..n \/ a \in (n - n + 1)..(n - m)
    BY <1>2, <1>21, <1>22
  <2> QED
    BY <1>22, <2>1, <2>2
<1>26. Fitting(table, limit) = Newer(n - m + 1)
  <2>1. Fitting(table, limit) \subseteq C
    BY DEF Fitting, C
  <2>2. \A x \in C : \E a \in 1..n : c[a] = x
    BY <1>3 DEF Lists
  <2>3. \A a \in (n - m + 1)..n : a \in 1..n
    BY <1>2, <1>24
  <2> QED
    BY <1>25, <2>1, <2>2, <2>3 DEF Newer, From
<1> DEFINE e == [i \in 1..m |-> c[n - m + i]]
           positions == Newer(n - m + 1)
           Increasing(f) == \A i, j \in DOMAIN f : i < j => f[i] < f[j]
           order == CHOOSE f \in [1..Cardinality(positions) -> positions] : Increasing(f)
<1>27. Lists(e, m, positions)
  BY <1>3, <1>24, ListsEnd DEF Newer
<1>28. positions \subseteq Nat /\ Cardinality(positions) = m
  BY <1>4, <1>10, <1>12, <1>24
<1>29. e \in [1..m -> positions] /\ Increasing(e)
  BY <1>27 DEF Lists
<1>30. order \in [1..m -> positions] /\ Increasing(order)
  <2> HIDE DEF e, positions, Increasing
  <2>1. \E f \in [1..Cardinality(positions) -> positions] : Increasing(f)
    BY <1>28, <1>29
  <2>2. order \in [1..Cardinality(positions) -> positions] /\ Increasing(order)
    BY <2>1
  <2> HIDE DEF order
  <2> QED
    BY <1>28, <2>2
<1>31. order = e
  <2> HIDE DEF order, e, positions
  <2>1. \A i, j \in 1..m : i < j => order[i] < order[j]
    BY <1>30
  <2> QED
    BY <1>27, <1>28, <1>30, <2>1, ListsOnce
<1>32. InOrder(table, positions) = [i \in 1..m |-> TurnAt(table, e[i])]
  <2>1. InOrder(table, positions) = [i \in DOMAIN order |-> TurnAt(table, order[i])]
    BY DEF InOrder
  <2> HIDE DEF order, positions
  <2> QED
    BY <1>31, <2>1
<1>33. \A i \in 1..m : n - m + i \in 1..n /\ chosen[i] = TurnAt(table, c[n - m + i])
  BY <1>2, <1>3, <1>21, <1>22
<1>34. chosen = [i \in 1..m |-> TurnAt(table, e[i])]
  BY <1>21, <1>33 DEF m
<1>35. \A i \in 1..m : \E j \in C : chosen[i] = TurnAt(table, j)
  BY <1>9, <1>33
<1> QED
  BY <1>21, <1>23, <1>26, <1>32, <1>34, <1>35 DEF m, C

---------------------------------------------------------------------------
(***************************************************************************)
(* The conversation.  Several processes may work on one run, and a later   *)
(* one overwrites the checkpoint of an earlier one; so the invariant does  *)
(* not rest on what a checkpoint says now, but on the replies with which   *)
(* the graph of a run has ended.  They only become more, and every answer  *)
(* in the table, in a process or in a checkpoint is one of them.           *)
(***************************************************************************)
IsReply(r, size, replies) == \E answer \in replies : answer.run = r /\ answer.size = size

\* A history of runs with a prompt and a reply.
Remembers(history, replies) ==
  \A i \in DOMAIN history : \E answer \in replies :
    history[i].run = answer.run /\ history[i].size = PromptSize[answer.run] + answer.size

Submitting(x) == x.step \in {"workspace", "create"}

\* What a process works with: a new run has no row yet, and its history is of replies; a
\* run that is carried out has a row, and a final state has one of its replies.
Sound(x, rows, replies) ==
  /\ Submitting(x) => x.run \in Runs /\ x.run \notin rows /\ Remembers(x.history, replies)
  /\ x.step \in Invocation =>
       x.run \in rows /\ (x.result.reply > 0 => IsReply(x.run, x.result.reply, replies))

\* The table: runs have one prompt, answers are replies, and a cleared run's prompt is gone
\* for good.
TableInv ==
  /\ Orderly(messages)
  /\ \A i \in DOMAIN messages :
       /\ messages[i].run \in created
       /\ messages[i].role = "assistant" =>
            IsReply(messages[i].run, messages[i].size, replied)
  /\ \A r \in cleared :
       /\ r \in created
       /\ \A i \in DOMAIN messages : messages[i].role = "user" => messages[i].run # r

\* The run of a submission is its own, as its id is fresh.
ProcessesInv ==
  /\ \A p \in Processes : Sound(proc[p], created, replied)
  /\ \A p, q \in Processes :
       Submitting(proc[p]) /\ Submitting(proc[q]) /\ proc[p].run = proc[q].run => p = q

GraphsInv ==
  /\ \A answer \in replied : answer.run \in created
  /\ \A r \in Runs :
       /\ Remembers(graph[r].history, replied)
       /\ \A i \in DOMAIN graph[r].history : graph[r].history[i].run # r
       /\ graph[r].result.reply > 0 => IsReply(r, graph[r].result.reply, replied)

ConversationInv == SessionTypeOK /\ TableInv /\ ProcessesInv /\ GraphsInv

\* What a submission reads: runs with a reply, whose prompt is in the table.
LEMMA SelectedAreAnswered ==
  ASSUME ConversationInv, NEW limit \in Limits
  PROVE  /\ Select(messages, limit) \in Seq(Turn)
         /\ Remembers(Select(messages, limit), replied)
         /\ \A i \in DOMAIN Select(messages, limit) : Select(messages, limit)[i].run \notin cleared
<1> DEFINE h == Select(messages, limit)
<1>1. Orderly(messages) /\ limit \in [turns : Nat, chars : Nat]
  BY SessionAssumption DEF ConversationInv, TableInv
<1>2. h \in Seq(Turn)
      /\ \A i \in 1..Len(h) : \E j \in Completions(messages) : h[i] = TurnAt(messages, j)
  BY <1>1, SelectIsNewestFitting
<1>3. DOMAIN h = 1..Len(h)
  BY <1>2
<1> HIDE DEF h
<1>4. ASSUME NEW i \in DOMAIN h
      PROVE  /\ \E answer \in replied :
                  h[i].run = answer.run /\ h[i].size = PromptSize[answer.run] + answer.size
             /\ h[i].run \notin cleared
  <2>1. PICK j \in Completions(messages) : h[i] = TurnAt(messages, j)
    BY <1>2, <1>3
  <2>2. PICK k \in 1..(j - 1) : messages[k].role = "user" /\ messages[k].run = messages[j].run
    BY <2>1 DEF Completions
  <2>3. j \in DOMAIN messages /\ messages[j].role = "assistant"
    BY DEF Completions
  <2>4. messages \in Seq(Message) /\ messages[j] \in Message
    BY <1>1, <2>3 DEF Orderly
  <2>5. k \in DOMAIN messages
    BY <2>3, <2>4
  <2>6. PICK answer \in replied : answer.run = messages[j].run /\ answer.size = messages[j].size
    BY <2>3 DEF ConversationInv, TableInv, IsReply
  <2>7. messages[j].run \notin cleared
    BY <2>2, <2>5 DEF ConversationInv, TableInv
  <2>8. h[i].run = messages[j].run /\ h[i].size = PromptSize[messages[j].run] + messages[j].size
    BY <2>1 DEF TurnAt
  <2> QED
    BY <2>6, <2>7, <2>8
<1> QED
  BY <1>2, <1>4 DEF Remembers, h

\* More replies make no history wrong.
LEMMA StillRemembers ==
  ASSUME NEW replies, NEW more, replies \subseteq more, NEW h, Remembers(h, replies)
  PROVE  Remembers(h, more)
BY DEF Remembers

\* The states of a process and of the session before a step of process p.
LEMMA Before ==
  ASSUME ConversationInv, NEW p \in Processes
  PROVE  /\ proc \in [Processes -> Process] /\ proc[p] \in Process
         /\ messages \in Seq(Message) /\ created \subseteq Runs
         /\ graph \in [Runs -> GraphState] /\ cleared \subseteq Runs
         /\ active \in Workspaces \cup {NoWorkspace} /\ directories \subseteq Workspaces
         /\ receipts \subseteq Runs /\ replied \subseteq Reply
         /\ maker \in [Workspaces -> Runs \cup {NoRun}]
         /\ proc[p].workspace \in Workspaces \cup {NoWorkspace}
         /\ Sound(proc[p], created, replied)
         /\ proc[p].step \in Invocation => proc[p].run \in Runs
<1>1. SessionTypeOK /\ ProcessesInv
  BY DEF ConversationInv
<1>2. proc[p] \in Process
  BY <1>1 DEF SessionTypeOK
<1>3. proc[p].workspace \in Workspaces \cup {NoWorkspace}
  BY <1>2 DEF Process
<1> QED
  BY <1>1, <1>2, <1>3 DEF SessionTypeOK, ProcessesInv

\* An idle process works with nothing.
LEMMA IdleType ==
  /\ Idle \in Process /\ Idle.step = "idle" /\ Idle.run = NoRun /\ Idle.workspace = NoWorkspace
  /\ Idle.history = <<>> /\ Idle.result = Open /\ Open \in GraphResult /\ Open.reply = 0
BY DEF Idle, Process, Steps, Open, GraphResult

\* A process moves while rows and replies only become more, and no submission of another
\* process finds its run taken.
LEMMA ProcessMoves ==
  ASSUME ConversationInv, NEW p \in Processes, NEW x \in Process,
         proc' = [proc EXCEPT ![p] = x],
         created \subseteq created', replied \subseteq replied',
         Sound(x, created', replied'),
         \A q \in Processes \ {p} : Submitting(proc[q]) =>
           proc[q].run \notin created' /\ (Submitting(x) => proc[q].run # x.run)
  PROVE  /\ ProcessesInv' /\ proc' \in [Processes -> Process]
         /\ \A q \in Processes : proc'[q].step \in Invocation => proc'[q].run \in created'
<1>1. proc' \in [Processes -> Process] /\ proc'[p] = x
      /\ \A q \in Processes \ {p} : proc'[q] = proc[q]
  BY Before
<1>2. ProcessesInv
  BY DEF ConversationInv
<1>3. ASSUME NEW q \in Processes PROVE Sound(proc'[q], created', replied')
  <2>1. CASE q = p
    BY <1>1, <2>1
  <2>2. CASE q # p
    <3>1. proc'[q] = proc[q] /\ Sound(proc[q], created, replied)
      BY <1>1, <1>2, <2>2 DEF ProcessesInv
    <3>2. Submitting(proc[q]) => Remembers(proc[q].history, replied')
      BY <3>1, StillRemembers DEF Sound
    <3> QED
      BY <2>2, <3>1, <3>2 DEF Sound, IsReply
  <2> QED
    BY <2>1, <2>2
<1>4. \A q, s \in Processes :
        Submitting(proc'[q]) /\ Submitting(proc'[s]) /\ proc'[q].run = proc'[s].run => q = s
  BY <1>1, <1>2 DEF ProcessesInv
<1>5. \A q \in Processes : proc'[q].step \in Invocation => proc'[q].run \in created'
  BY <1>3 DEF Sound
<1> QED
  BY <1>1, <1>3, <1>4, <1>5 DEF ProcessesInv

\* What is left to show when the table, the rows, the replies and the checkpoints stay.
LEMMA ProcessOnly ==
  ASSUME ConversationInv, NEW p \in Processes, NEW x \in Process,
         proc' = [proc EXCEPT ![p] = x],
         UNCHANGED <<messages, created, graph, cleared, replied>>,
         active' \in Workspaces \cup {NoWorkspace}, directories' \subseteq Workspaces,
         receipts' \subseteq Runs, maker' \in [Workspaces -> Runs \cup {NoRun}],
         Sound(x, created, replied),
         \A q \in Processes \ {p} : Submitting(proc[q]) /\ Submitting(x) => proc[q].run # x.run
  PROVE  ConversationInv'
<1>1. TableInv' /\ GraphsInv'
  BY DEF ConversationInv, TableInv, GraphsInv
<1>2. \A q \in Processes : Submitting(proc[q]) => proc[q].run \notin created
  BY DEF ConversationInv, ProcessesInv, Sound
<1>3. /\ ProcessesInv' /\ proc' \in [Processes -> Process]
      /\ \A q \in Processes : proc'[q].step \in Invocation => proc'[q].run \in created'
  BY <1>2, ProcessMoves
<1>4. SessionTypeOK'
  BY <1>3 DEF ConversationInv, SessionTypeOK
<1> QED
  BY <1>1, <1>3, <1>4 DEF ConversationInv

\* The same for a process that is not submitting afterwards.
LEMMA ProcessGoesOn ==
  ASSUME ConversationInv, NEW p \in Processes, NEW x \in Process,
         proc' = [proc EXCEPT ![p] = x],
         UNCHANGED <<messages, created, graph, cleared, replied>>,
         active' \in Workspaces \cup {NoWorkspace}, directories' \subseteq Workspaces,
         receipts' \subseteq Runs, maker' \in [Workspaces -> Runs \cup {NoRun}],
         ~Submitting(x), x.step \in Invocation => Sound(x, created, replied)
  PROVE  ConversationInv'
BY ProcessOnly DEF Sound

\* A process that goes on inside its invocation keeps its run and what it has loaded.
LEMMA WithinKeeps ==
  ASSUME ConversationInv, NEW p \in Processes, proc[p].step \in Invocation,
         NEW step \in Invocation, NEW w \in Workspaces \cup {NoWorkspace}, Within(p, step, w)
  PROVE  LET x == [proc[p] EXCEPT !.step = step, !.workspace = w] IN
         /\ x \in Process /\ proc' = [proc EXCEPT ![p] = x]
         /\ ~Submitting(x) /\ Sound(x, created, replied)
<1> DEFINE x == [proc[p] EXCEPT !.step = step, !.workspace = w]
<1>1. proc[p] \in Process /\ Sound(proc[p], created, replied) /\ proc \in [Processes -> Process]
  BY Before
<1>2. x.step = step /\ x.run = proc[p].run /\ x.result = proc[p].result
  BY <1>1 DEF Process
<1>3. x \in Process
  BY <1>1 DEF Process, Steps
<1>4. proc' = [proc EXCEPT ![p] = x]
  BY DEF Within
<1> HIDE DEF x
<1>5. ~Submitting(x)
  BY <1>2 DEF Submitting, Invocation
<1>6. Sound(x, created, replied)
  BY <1>1, <1>2, <1>5 DEF Sound
<1> QED
  BY <1>3, <1>4, <1>5, <1>6 DEF x

\* A submission reads its history, in a process with a run of its own.
LEMMA BeginSubmitKeeps ==
  ASSUME ConversationInv, NEW p \in Processes, NEW r \in Runs, BeginSubmit(p, r)
  PROVE  ConversationInv'
<1>1. PICK limit \in Limits : proc' = [proc EXCEPT ![p] =
        [Idle EXCEPT !.step = "workspace", !.run = r, !.history = Select(messages, limit)]]
  BY DEF BeginSubmit
<1> DEFINE h == Select(messages, limit)
           x == [Idle EXCEPT !.step = "workspace", !.run = r, !.history = h]
<1>2. h \in Seq(Turn) /\ Remembers(h, replied)
  BY SelectedAreAnswered
<1> HIDE DEF h
<1>3. x \in Process /\ x.step = "workspace" /\ x.run = r /\ x.history = h
  BY <1>2 DEF Idle, Process, Steps, Open, GraphResult
<1>4. proc' = [proc EXCEPT ![p] = x]
  BY <1>1 DEF h
<1> HIDE DEF x
<1>5. UNCHANGED <<messages, active, created, receipts, directories, graph, cleared, replied, maker>>
      /\ r \notin created /\ \A q \in Processes : proc[q].run # r
  BY DEF BeginSubmit, tables, historyVars
<1>6. Sound(x, created, replied)
  BY <1>2, <1>3, <1>5 DEF Sound, Submitting, Invocation
<1> QED
  BY <1>3, <1>4, <1>5, <1>6, Before, ProcessOnly

\* It reads the workspace and keeps its history.
LEMMA ReadWorkspaceKeeps ==
  ASSUME ConversationInv, NEW p \in Processes, ReadWorkspace(p)
  PROVE  ConversationInv'
<1> DEFINE x == [proc[p] EXCEPT !.step = "create", !.workspace = active]
<1>1. proc' = [proc EXCEPT ![p] = x]
  BY Before DEF ReadWorkspace
<1>2. UNCHANGED <<messages, active, created, receipts, directories, graph, cleared, replied, maker>>
      /\ proc[p].step = "workspace"
  BY DEF ReadWorkspace, tables, historyVars, At
<1>3. proc[p] \in Process /\ active \in Workspaces \cup {NoWorkspace}
      /\ Sound(proc[p], created, replied)
  BY Before
<1>4. x \in Process /\ x.step = "create" /\ x.run = proc[p].run /\ x.history = proc[p].history
  BY <1>3 DEF Process, Steps
<1> HIDE DEF x
<1>5. Sound(x, created, replied)
  BY <1>2, <1>3, <1>4 DEF Sound, Submitting, Invocation
<1>6. \A q \in Processes \ {p} : Submitting(proc[q]) => proc[q].run # x.run
  BY <1>2, <1>4 DEF ConversationInv, ProcessesInv, Submitting
<1> QED
  BY <1>1, <1>2, <1>4, <1>5, <1>6, Before, ProcessOnly

\* A resumed run has a row, and what its checkpoint says is loaded.
LEMMA ResumeKeeps ==
  ASSUME ConversationInv, NEW p \in Processes, NEW r \in Runs, Resume(p, r)
  PROVE  ConversationInv'
<1> DEFINE x == [Idle EXCEPT !.step = "graph", !.run = r, !.result = graph[r].result]
<1>1. proc' = [proc EXCEPT ![p] = x]
  BY DEF Resume
<1>2. UNCHANGED <<messages, active, created, receipts, directories, graph, cleared, replied, maker>>
      /\ r \in created
  BY DEF Resume, tables, historyVars
<1>3. x.step = "graph" /\ x.run = r /\ x.result = graph[r].result
  BY DEF Idle
<1>4. x \in Process
  <2>1. graph[r] \in GraphState
    BY Before
  <2>2. graph[r].result \in GraphResult
    BY <2>1 DEF GraphState
  <2>3. Idle \in Process /\ "graph" \in Steps
    BY IdleType DEF Steps, Invocation
  <2> QED
    BY <2>2, <2>3 DEF Process
<1> HIDE DEF x
<1>5. ~Submitting(x) /\ Sound(x, created, replied)
  BY <1>2, <1>3 DEF Sound, Submitting, Invocation, ConversationInv, GraphsInv
<1> QED
  BY <1>1, <1>2, <1>4, <1>5, Before, ProcessGoesOn

\* A tool only moves its process.
LEMMA UseToolKeeps ==
  ASSUME ConversationInv, NEW p \in Processes, UseTool(p)
  PROVE  ConversationInv'
<1>1. proc[p].step \in Invocation
      /\ UNCHANGED <<messages, active, created, receipts, directories, graph, cleared, replied, maker>>
  BY DEF UseTool, BeforeTool, At, Invocation, tables, historyVars
<1>2. PICK w \in ToolPlaces(proc[p].run) \cup {NoWorkspace} : Within(p, "persist", w)
  BY DEF UseTool
<1>3. w \in Workspaces \cup {NoWorkspace} /\ "persist" \in Invocation
  BY Before DEF ToolPlaces, Invocation
<1> QED
  BY <1>1, <1>2, <1>3, WithinKeeps, ProcessGoesOn, Before

\* Making a directory, and a repository of it, is not the conversation's business.
LEMMA MakeDirectoryKeeps ==
  ASSUME ConversationInv, NEW p \in Processes, MakeDirectory(p)
  PROVE  ConversationInv'
<1>1. proc[p].step \in Invocation
      /\ UNCHANGED <<messages, active, created, receipts, graph, cleared, replied, maker>>
  BY DEF MakeDirectory, BeforeTool, At, Invocation, tables, historyVars
<1>2. PICK w \in Workspaces \ directories :
        directories' = directories \cup {w} /\ Within(p, "init", w)
  BY DEF MakeDirectory
<1>3. directories' \subseteq Workspaces /\ "init" \in Invocation
  BY <1>2, Before DEF Invocation
<1> QED
  BY <1>1, <1>2, <1>3, WithinKeeps, ProcessGoesOn, Before

\* Nor is what becomes of it.
LEMMA InitEndsKeeps ==
  ASSUME ConversationInv, NEW p \in Processes, InitEnds(p)
  PROVE  ConversationInv'
<1>1. proc[p].step \in Invocation /\ "persist" \in Invocation
      /\ UNCHANGED <<messages, active, created, receipts, graph, cleared, replied>>
  BY DEF InitEnds, At, Invocation, tables
<1>2. proc[p].run \in Runs
  BY <1>1, Before
<1>3. maker' \in [Workspaces -> Runs \cup {NoRun}] /\ directories' \subseteq Workspaces
  BY <1>2, Before DEF InitEnds, CleanedUp
<1>4. PICK w \in {proc[p].workspace, NoWorkspace} : Within(p, "persist", w)
  BY DEF InitEnds
<1>5. w \in Workspaces \cup {NoWorkspace}
  BY Before
<1> QED
  BY <1>1, <1>3, <1>4, <1>5, WithinKeeps, ProcessGoesOn, Before

\* The result writes the receipt and the workspace.
LEMMA PersistResultKeeps ==
  ASSUME ConversationInv, NEW p \in Processes, PersistResult(p)
  PROVE  ConversationInv'
<1>1. proc[p].step \in Invocation /\ "answer" \in Invocation
      /\ UNCHANGED <<messages, created, directories, graph, cleared, replied, maker>>
  BY DEF PersistResult, At, Invocation, historyVars
<1>2. receipts' \subseteq Runs /\ active' \in Workspaces \cup {NoWorkspace}
  BY <1>1, Before DEF PersistResult, ActiveAfter
<1>3. CASE Stop(p)
  BY <1>1, <1>2, <1>3, IdleType, ProcessGoesOn, Before DEF Stop, Submitting, Invocation
<1>4. CASE Within(p, "answer", NoWorkspace)
  BY <1>1, <1>2, <1>4, WithinKeeps, ProcessGoesOn, Before
<1> QED
  BY <1>3, <1>4 DEF PersistResult

\* Selecting a workspace is about no run.
LEMMA BeginSelectKeeps ==
  ASSUME ConversationInv, NEW p \in Processes, NEW w \in Workspaces, BeginSelect(p, w)
  PROVE  ConversationInv'
<1> DEFINE x == [Idle EXCEPT !.step = "select", !.workspace = w, !.row = active]
<1>1. proc' = [proc EXCEPT ![p] = x]
  BY DEF BeginSelect
<1>2. UNCHANGED <<messages, active, created, receipts, directories, graph, cleared, replied, maker>>
  BY DEF BeginSelect, tables, historyVars
<1>3. active \in Workspaces \cup {NoWorkspace}
  BY Before
<1>4. x \in Process /\ x.step = "select"
  <2>1. x.step = "select"
    BY DEF Idle
  <2>2. Idle \in Process /\ "select" \in Steps
    BY IdleType DEF Steps
  <2>3. x \in Process
    BY <1>3, <2>2 DEF Process
  <2> QED
    BY <2>1, <2>3
<1> HIDE DEF x
<1>5. ~Submitting(x) /\ x.step \notin Invocation
  BY <1>4 DEF Submitting, Invocation
<1> QED
  BY <1>1, <1>2, <1>4, <1>5, Before, ProcessGoesOn

\* The selection writes the row of the workspace only.
LEMMA FinishSelectKeeps ==
  ASSUME ConversationInv, NEW p \in Processes, FinishSelect(p)
  PROVE  ConversationInv'
<1>1. UNCHANGED <<messages, created, receipts, directories, graph, cleared, replied, maker>>
      /\ proc' = [proc EXCEPT ![p] = Idle]
  BY DEF FinishSelect, Stop, historyVars
<1>2. active' \in Workspaces \cup {NoWorkspace}
  BY Before DEF FinishSelect
<1> QED
  BY <1>1, <1>2, Before, IdleType, ProcessGoesOn DEF Submitting, Invocation

\* A process that stops may leave a directory or remove the one it was making.
LEMMA InterruptionKeeps ==
  ASSUME ConversationInv, NEW p \in Processes, Interruption(p)
  PROVE  ConversationInv'
<1>1. UNCHANGED <<messages, active, created, receipts, graph, cleared, replied, maker>>
      /\ proc' = [proc EXCEPT ![p] = Idle]
  BY DEF Interruption, Stop, tables, historyVars
<1>2. directories' \subseteq Workspaces
  BY Before DEF Interruption, CleanedUp
<1> QED
  BY <1>1, <1>2, Before, IdleType, ProcessGoesOn DEF Submitting, Invocation

\* Rows and replies only become more.
RowsStay == created \subseteq created' /\ replied \subseteq replied'

\* A table without a change stays right while rows and replies stay.
LEMMA TableKeeps ==
  ASSUME ConversationInv, RowsStay, UNCHANGED <<messages, cleared>>
  PROVE  TableInv'
BY DEF ConversationInv, TableInv, RowsStay, IsReply

\* A table with one message more is orderly, if a prompt is its run's first message.
LEMMA OneMoreMessage ==
  ASSUME NEW table, Orderly(table), NEW m \in Message,
         m.role = "user" => m.size = PromptSize[m.run] /\ \A i \in DOMAIN table : table[i].run # m.run
  PROVE  Orderly(Append(table, m))
<1> DEFINE n == Len(table)
           longer == Append(table, m)
<1>1. table \in Seq(Message) /\ n \in Nat /\ DOMAIN table = 1..n
  BY DEF Orderly
<1>2. /\ longer \in Seq(Message) /\ DOMAIN longer = 1..(n + 1) /\ longer[n + 1] = m
      /\ \A i \in 1..n : longer[i] = table[i]
  BY <1>1
<1>3. \A i \in 1..(n + 1) : i \in 1..n \/ i = n + 1
  BY <1>1
<1> HIDE DEF n, longer
<1>4. \A i \in 1..(n + 1) : longer[i].role = "user" => longer[i].size = PromptSize[longer[i].run]
  BY <1>1, <1>2, <1>3 DEF Orderly
<1>5. ASSUME NEW i \in 1..(n + 1), NEW j \in 1..(n + 1),
             longer[i].role = "user", longer[j].role = "user", longer[i].run = longer[j].run
      PROVE  i = j
  <2>1. CASE i \in 1..n /\ j \in 1..n
    BY <1>1, <1>2, <1>5, <2>1 DEF Orderly
  <2>2. CASE i = n + 1 \/ j = n + 1
    BY <1>1, <1>2, <1>3, <1>5, <2>2
  <2> QED
    BY <1>3, <2>1, <2>2
<1>6. Orderly(longer)
  BY <1>2, <1>4, <1>5 DEF Orderly
<1> QED
  BY <1>6 DEF longer

\* One message more: the prompt of a run that had no row, or a reply.
LEMMA TableGrows ==
  ASSUME ConversationInv, RowsStay, UNCHANGED cleared, NEW m \in Message,
         messages' = Append(messages, m), m.run \in created',
         m.role = "user" => m.size = PromptSize[m.run] /\ m.run \notin created,
         m.role = "assistant" => IsReply(m.run, m.size, replied')
  PROVE  TableInv' /\ messages' \in Seq(Message)
<1> DEFINE n == Len(messages)
<1>1. TableInv /\ Orderly(messages)
  BY DEF ConversationInv, TableInv
<1>2. messages \in Seq(Message) /\ n \in Nat /\ DOMAIN messages = 1..n
  BY <1>1 DEF Orderly
<1>3. /\ messages' \in Seq(Message) /\ DOMAIN messages' = 1..(n + 1)
      /\ messages'[n + 1] = m
      /\ \A i \in 1..n : messages'[i] = messages[i]
  BY <1>2
<1>4. \A i \in 1..(n + 1) : i \in 1..n \/ i = n + 1
  BY <1>2
<1> HIDE DEF n
<1>5. \A i \in 1..n : messages[i].run \in created
  BY <1>1, <1>2 DEF TableInv
<1>6. Orderly(messages')
  <2>1. m.role = "user" => m.size = PromptSize[m.run] /\ \A i \in DOMAIN messages : messages[i].run # m.run
    BY <1>2, <1>5
  <2>2. Orderly(Append(messages, m))
    BY <1>1, <2>1, OneMoreMessage
  <2> QED
    BY <2>2
<1>7. ASSUME NEW i \in 1..(n + 1)
      PROVE  /\ messages'[i].run \in created'
             /\ messages'[i].role = "assistant" =>
                  IsReply(messages'[i].run, messages'[i].size, replied')
  <2>1. CASE i \in 1..n
    BY <1>1, <1>2, <1>3, <1>5, <2>1 DEF TableInv, RowsStay, IsReply
  <2>2. CASE i = n + 1
    BY <1>3, <2>2
  <2> QED
    BY <1>4, <2>1, <2>2
<1>8. ASSUME NEW r \in cleared
      PROVE  /\ r \in created'
             /\ \A i \in 1..(n + 1) : messages'[i].role = "user" => messages'[i].run # r
  <2>1. r \in created /\ r \in created'
    BY <1>1 DEF TableInv, RowsStay
  <2>2. \A i \in 1..n : messages[i].role = "user" => messages[i].run # r
    BY <1>1, <1>2 DEF TableInv
  <2> QED
    BY <1>3, <1>4, <2>1, <2>2
<1> QED
  BY <1>3, <1>6, <1>7, <1>8 DEF TableInv

\* The run and its prompt are committed together, with the history the process has read.
LEMMA CreateRunKeeps ==
  ASSUME ConversationInv, NEW p \in Processes, CreateRun(p)
  PROVE  ConversationInv'
<1> DEFINE r == proc[p].run
           m == [run |-> r, role |-> "user", size |-> PromptSize[r]]
           x == [Idle EXCEPT !.step = "graph", !.run = r]
           g == [result |-> Open, history |-> proc[p].history, workspace |-> proc[p].workspace]
<1>1. /\ proc[p].step = "create" /\ messages' = Append(messages, m)
      /\ created' = created \cup {r} /\ graph' = [graph EXCEPT ![r] = g]
      /\ proc' = [proc EXCEPT ![p] = x]
      /\ UNCHANGED <<active, directories, receipts, cleared, replied, maker>>
  BY DEF CreateRun, At, historyVars
<1>2. r \in Runs /\ r \notin created /\ Remembers(proc[p].history, replied)
      /\ \A q \in Processes \ {p} : Submitting(proc[q]) => proc[q].run # r
  <2>1. Submitting(proc[p]) /\ Sound(proc[p], created, replied)
    BY <1>1, Before DEF Submitting
  <2> QED
    BY <2>1 DEF Sound, ConversationInv, ProcessesInv
<1>3. m \in Message /\ m.run = r /\ m.role = "user" /\ m.size = PromptSize[r]
  <2>1. PromptSize[r] \in Nat
    BY <1>2, SessionAssumption
  <2> QED
    BY <1>2, <2>1 DEF Message
<1>4. x \in Process /\ x.step = "graph" /\ x.run = r /\ x.result.reply = 0
  <2>1. x.step = "graph" /\ x.run = r /\ x.result = Open
    BY DEF Idle
  <2>2. Idle \in Process /\ "graph" \in Steps
    BY IdleType DEF Steps, Invocation
  <2>3. x \in Process
    BY <1>2, <2>2 DEF Process
  <2> QED
    BY <2>1, <2>3, IdleType
<1>5. g \in GraphState /\ g.history = proc[p].history /\ g.result.reply = 0
  <2>1. proc[p] \in Process
    BY Before
  <2>2. proc[p].history \in Seq(Turn) /\ proc[p].workspace \in Workspaces \cup {NoWorkspace}
    BY <2>1 DEF Process
  <2> QED
    BY <2>2, IdleType DEF GraphState
<1> HIDE DEF m, x, g, r
<1>6. graph \in [Runs -> GraphState] /\ created \subseteq Runs /\ replied \subseteq Reply
  BY Before
<1>7. /\ graph' \in [Runs -> GraphState] /\ graph'[r] = g
      /\ \A s \in Runs \ {r} : graph'[s] = graph[s]
  BY <1>1, <1>2, <1>5, <1>6
<1>8. RowsStay
  BY <1>1 DEF RowsStay
<1>9. TableInv' /\ messages' \in Seq(Message)
  BY <1>1, <1>2, <1>3, <1>8, TableGrows
<1>10. GraphsInv'
  <2>1. GraphsInv
    BY DEF ConversationInv
  <2>2. \A answer \in replied : answer.run \in created /\ answer.run # r
    BY <1>2, <2>1 DEF GraphsInv
  <2>3. \A i \in DOMAIN proc[p].history : proc[p].history[i].run # r
    BY <1>2, <2>2 DEF Remembers
  <2>4. ASSUME NEW s \in Runs
        PROVE  /\ Remembers(graph'[s].history, replied)
               /\ \A i \in DOMAIN graph'[s].history : graph'[s].history[i].run # s
               /\ graph'[s].result.reply > 0 => IsReply(s, graph'[s].result.reply, replied)
    <3>1. CASE s = r
      BY <1>2, <1>5, <1>7, <2>3, <3>1
    <3>2. CASE s # r
      BY <1>7, <2>1, <3>2 DEF GraphsInv
    <3> QED
      BY <3>1, <3>2
  <2> QED
    BY <1>1, <2>2, <2>4 DEF GraphsInv
<1>11. /\ ProcessesInv' /\ proc' \in [Processes -> Process]
       /\ \A q \in Processes : proc'[q].step \in Invocation => proc'[q].run \in created'
  <2>1. ~Submitting(x) /\ Sound(x, created', replied')
    BY <1>1, <1>4 DEF Sound, Submitting, Invocation
  <2>2. \A q \in Processes \ {p} : Submitting(proc[q]) => proc[q].run \notin created'
    BY <1>1, <1>2 DEF ConversationInv, ProcessesInv, Sound
  <2>3. created \subseteq created' /\ replied \subseteq replied'
    BY <1>8 DEF RowsStay
  <2> QED
    BY <1>1, <1>4, <2>1, <2>2, <2>3, ProcessMoves
<1>12. SessionTypeOK'
  BY <1>1, <1>2, <1>7, <1>9, <1>11, Before DEF SessionTypeOK
<1> QED
  BY <1>9, <1>10, <1>11, <1>12 DEF ConversationInv

\* A graph that returns has its result in the checkpoint, and its reply among the replies.
LEMMA GraphReturnsKeeps ==
  ASSUME ConversationInv, NEW p \in Processes, GraphReturns(p)
  PROVE  ConversationInv'
<1> DEFINE r == proc[p].run
<1>1. PICK result \in Results(p) :
        /\ graph' = [graph EXCEPT ![r].result = result]
        /\ proc' = [proc EXCEPT ![p] = [@ EXCEPT !.step = "record", !.result = result]]
        /\ replied' = IF result.reply > 0
                      THEN replied \cup {[run |-> r, size |-> result.reply]} ELSE replied
  BY DEF GraphReturns
<1>2. proc[p].step \in Invocation
      /\ UNCHANGED <<messages, active, created, receipts, directories, cleared, maker>>
  BY DEF GraphReturns, Invocation, tables
<1>3. /\ graph \in [Runs -> GraphState] /\ r \in Runs /\ graph[r] \in GraphState
      /\ proc \in [Processes -> Process] /\ proc[p] \in Process
      /\ replied \subseteq Reply /\ created \subseteq Runs /\ Sound(proc[p], created, replied)
  BY <1>2, Before
<1>4. r \in created
  BY <1>2, <1>3 DEF Sound
<1>5. result \in GraphResult /\ result.reply \in Nat
  <2>1. proc[p].result \in GraphResult
    BY <1>3 DEF Process
  <2>2. \A size \in ReplySizes : EndedWith(size) \in GraphResult
    BY SessionAssumption DEF EndedWith, GraphResult
  <2>3. result \in GraphResult
    BY <1>1, <2>1, <2>2, IdleType DEF Results
  <2> QED
    BY <2>3 DEF GraphResult
<1> DEFINE x == [proc[p] EXCEPT !.step = "record", !.result = result]
           g == [graph[r] EXCEPT !.result = result]
<1>6. x \in Process /\ x.step = "record" /\ x.run = r /\ x.result = result
  <2>1. x.step = "record" /\ x.run = r /\ x.result = result
    BY <1>3 DEF Process
  <2>2. x \in Process
    BY <1>3, <1>5 DEF Process, Steps, Invocation
  <2> QED
    BY <2>1, <2>2
<1>7. g \in GraphState /\ g.result = result /\ g.history = graph[r].history
  BY <1>3, <1>5 DEF GraphState
<1>8. proc' = [proc EXCEPT ![p] = x] /\ graph' = [graph EXCEPT ![r] = g]
  BY <1>1
<1>9. /\ replied \subseteq replied' /\ replied' \subseteq Reply
      /\ result.reply > 0 => IsReply(r, result.reply, replied')
  <2>1. CASE result.reply > 0
    <3> DEFINE answer == [run |-> r, size |-> result.reply]
    <3>1. answer \in Reply /\ answer.run = r /\ answer.size = result.reply
      BY <1>3, <1>5, <2>1 DEF Reply
    <3>2. replied' = replied \cup {answer}
      BY <1>1, <2>1
    <3> QED
      BY <1>3, <3>1, <3>2 DEF IsReply
  <2>2. CASE ~(result.reply > 0)
    BY <1>1, <1>3, <2>2
  <2> QED
    BY <2>1, <2>2
<1>10. \A answer \in replied' : answer \in replied \/ answer.run = r
  BY <1>1
<1> HIDE DEF x, g, r
<1>11. /\ graph' \in [Runs -> GraphState] /\ graph'[r] = g
       /\ \A s \in Runs \ {r} : graph'[s] = graph[s]
  BY <1>3, <1>7, <1>8
<1>12. RowsStay
  BY <1>2, <1>9 DEF RowsStay
<1>13. TableInv'
  BY <1>2, <1>12, TableKeeps
<1>14. GraphsInv'
  <2>1. GraphsInv
    BY DEF ConversationInv
  <2>2. \A answer \in replied' : answer.run \in created
    BY <1>4, <1>10, <2>1 DEF GraphsInv
  <2>3. ASSUME NEW s \in Runs
        PROVE  /\ Remembers(graph'[s].history, replied')
               /\ \A i \in DOMAIN graph'[s].history : graph'[s].history[i].run # s
               /\ graph'[s].result.reply > 0 => IsReply(s, graph'[s].result.reply, replied')
    <3>1. graph'[s].history = graph[s].history
      BY <1>7, <1>11
    <3>2. Remembers(graph[s].history, replied')
      BY <1>9, <2>1, StillRemembers DEF GraphsInv
    <3>3. graph'[s].result.reply > 0 => IsReply(s, graph'[s].result.reply, replied')
      BY <1>7, <1>9, <1>11, <2>1 DEF GraphsInv, IsReply
    <3> QED
      BY <2>1, <3>1, <3>2, <3>3 DEF GraphsInv
  <2> QED
    BY <1>2, <2>2, <2>3 DEF GraphsInv
<1>15. /\ ProcessesInv' /\ proc' \in [Processes -> Process]
       /\ \A q \in Processes : proc'[q].step \in Invocation => proc'[q].run \in created'
  <2>1. ~Submitting(x) /\ Sound(x, created', replied')
    BY <1>2, <1>4, <1>6, <1>9 DEF Sound, Submitting, Invocation
  <2>2. \A q \in Processes \ {p} : Submitting(proc[q]) => proc[q].run \notin created'
    BY <1>2 DEF ConversationInv, ProcessesInv, Sound
  <2> QED
    BY <1>2, <1>6, <1>8, <1>9, <2>1, <2>2, ProcessMoves
<1>16. SessionTypeOK'
  BY <1>2, <1>9, <1>11, <1>15, Before DEF SessionTypeOK
<1> QED
  BY <1>13, <1>14, <1>15, <1>16 DEF ConversationInv

\* The answer that is filed is a reply.
LEMMA RecordKeeps ==
  ASSUME ConversationInv, NEW p \in Processes, Record(p)
  PROVE  ConversationInv'
<1> DEFINE r == proc[p].run
           result == proc[p].result
           m == [run |-> r, role |-> "assistant", size |-> result.reply]
<1>1. /\ proc[p].step = "record" /\ proc' = [proc EXCEPT ![p] = Idle]
      /\ messages' = IF result.at = "ended" /\ result.reply > 0
                     THEN Append(messages, m) ELSE messages
      /\ UNCHANGED <<active, created, directories, graph, receipts, cleared, replied, maker>>
  BY DEF Record, At, Stop, historyVars
<1>2. /\ r \in Runs /\ r \in created
      /\ result.reply > 0 => IsReply(r, result.reply, replied)
  <2>1. proc[p].step \in Invocation
    BY <1>1 DEF Invocation
  <2> QED
    BY <2>1, Before DEF Sound
<1>3. result \in GraphResult
  BY Before DEF Process
<1> HIDE DEF r, result
<1>4. m \in Message /\ m.run = r /\ m.role = "assistant" /\ m.size = result.reply
  <2>1. result.reply \in Nat
    BY <1>3 DEF GraphResult
  <2> QED
    BY <1>2, <2>1 DEF Message
<1> HIDE DEF m
<1>5. RowsStay
  BY <1>1 DEF RowsStay
<1>6. TableInv' /\ messages' \in Seq(Message)
  <2>1. CASE result.at = "ended" /\ result.reply > 0
    <3>1. messages' = Append(messages, m)
      BY <1>1, <2>1
    <3> QED
      BY <1>1, <1>2, <1>4, <1>5, <2>1, <3>1, TableGrows
  <2>2. CASE ~(result.at = "ended" /\ result.reply > 0)
    <3>1. messages' = messages
      BY <1>1, <2>2
    <3> QED
      BY <1>1, <1>5, <3>1, TableKeeps, Before
  <2> QED
    BY <2>1, <2>2
<1>7. GraphsInv'
  BY <1>1 DEF ConversationInv, GraphsInv
<1>8. /\ ProcessesInv' /\ proc' \in [Processes -> Process]
      /\ \A q \in Processes : proc'[q].step \in Invocation => proc'[q].run \in created'
  <2>1. ~Submitting(Idle) /\ Sound(Idle, created', replied')
    BY IdleType DEF Sound, Submitting, Invocation
  <2>2. \A q \in Processes \ {p} : Submitting(proc[q]) => proc[q].run \notin created'
    BY <1>1 DEF ConversationInv, ProcessesInv, Sound
  <2> QED
    BY <1>1, <2>1, <2>2, IdleType, ProcessMoves
<1>9. SessionTypeOK'
  BY <1>1, <1>6, <1>8, Before DEF SessionTypeOK
<1> QED
  BY <1>6, <1>7, <1>8, <1>9 DEF ConversationInv

\* /clear removes all messages, so that no cleared prompt is left.
LEMMA ClearKeeps ==
  ASSUME ConversationInv, NEW p \in Processes, Clear(p)
  PROVE  ConversationInv'
<1>1. /\ messages' = <<>> /\ cleared' = cleared \cup Prompts(messages)
      /\ UNCHANGED <<active, created, receipts, directories, graph, proc, replied, maker>>
  BY DEF Clear
<1>2. messages' \in Seq(Message) /\ \A i \in DOMAIN messages' : FALSE
  BY <1>1
<1>3. \A r \in Prompts(messages) : r \in created
  BY DEF ConversationInv, TableInv, Prompts
<1>4. Orderly(messages')
  BY <1>2 DEF Orderly
<1>5. \A r \in cleared' : r \in created' /\ r \in Runs
  BY <1>1, <1>3 DEF ConversationInv, SessionTypeOK, TableInv
<1>6. TableInv'
  BY <1>2, <1>4, <1>5 DEF TableInv
<1>7. ProcessesInv' /\ GraphsInv'
  BY <1>1 DEF ConversationInv, ProcessesInv, GraphsInv
<1>8. SessionTypeOK'
  BY <1>1, <1>2, <1>5 DEF ConversationInv, SessionTypeOK
<1> QED
  BY <1>6, <1>7, <1>8 DEF ConversationInv

\* Every operation of every process keeps the conversation.
LEMMA ConversationNext == ConversationInv /\ [SessionNext]_vars => ConversationInv'
<1> SUFFICES ASSUME ConversationInv, [SessionNext]_vars PROVE ConversationInv'
  OBVIOUS
<1>1. CASE UNCHANGED vars
  BY <1>1 DEF vars, tables, historyVars, ConversationInv, SessionTypeOK, TableInv, ProcessesInv,
     GraphsInv
<1>2. ASSUME NEW p \in Processes, Operation(p) PROVE ConversationInv'
  BY <1>2, BeginSubmitKeeps, ResumeKeeps, ReadWorkspaceKeeps, CreateRunKeeps, UseToolKeeps,
     MakeDirectoryKeeps, InitEndsKeeps, PersistResultKeeps, GraphReturnsKeeps, RecordKeeps,
     InterruptionKeeps, ClearKeeps, BeginSelectKeeps, FinishSelectKeeps DEF Operation
<1> QED
  BY <1>1, <1>2 DEF SessionNext

\* The table of the exchanges of the first k runs of an order.
ExchangesOf(table, order, k) ==
  /\ Orderly(table)
  /\ \A j \in DOMAIN table :
       /\ \E i \in 1..k : table[j].run = order[i]
       /\ table[j].role = "assistant" => table[j].size = 1

\* No run comes twice among the first n of an order.
Distinct(order, n) == \A i, j \in 1..n : order[i] = order[j] => i = j

\* The messages of an exchange.
LEMMA ExchangeTypes ==
  ASSUME NEW r \in Runs
  PROVE  /\ [run |-> r, role |-> "user", size |-> PromptSize[r]] \in Message
         /\ [run |-> r, role |-> "assistant", size |-> 1] \in Message
         /\ Exchange(r) \in Seq(Message)
<1>1. PromptSize[r] \in Nat
  BY SessionAssumption
<1>2. /\ [run |-> r, role |-> "user", size |-> PromptSize[r]] \in Message
      /\ [run |-> r, role |-> "assistant", size |-> 1] \in Message
  BY <1>1 DEF Message
<1> QED
  BY <1>2 DEF Exchange

\* One exchange more, of a run that is not in the table yet.
LEMMA OneMoreExchange ==
  ASSUME NEW n \in Nat, NEW order \in [1..n -> Runs],
         Distinct(order, n), NEW k \in Nat, k + 1 <= n, NEW table, ExchangesOf(table, order, k)
  PROVE  ExchangesOf(table \o Exchange(order[k + 1]), order, k + 1)
<1> DEFINE r == order[k + 1]
           u == [run |-> r, role |-> "user", size |-> PromptSize[r]]
           a == [run |-> r, role |-> "assistant", size |-> 1]
           longer == Append(Append(table, u), a)
           m == Len(table)
<1>1. k + 1 \in 1..n /\ r \in Runs /\ 1..k \subseteq 1..n /\ 1..k \subseteq 1..(k + 1)
      /\ k + 1 \in 1..(k + 1)
  OBVIOUS
<1>2. Orderly(table) /\ table \in Seq(Message) /\ m \in Nat /\ DOMAIN table = 1..m
  BY DEF ExchangesOf, Orderly
<1>3. \A i \in DOMAIN table : table[i].run # r
  <2>1. \A i \in 1..k : order[i] # r
    BY <1>1 DEF Distinct
  <2> QED
    BY <2>1 DEF ExchangesOf
<1>4. u \in Message /\ a \in Message
  BY <1>1, ExchangeTypes
<1>5. u.run = r /\ u.role = "user" /\ u.size = PromptSize[r]
      /\ a.run = r /\ a.role = "assistant" /\ a.size = 1
  OBVIOUS
<1>6. table \o Exchange(r) = longer
  BY <1>2, <1>4 DEF Exchange
<1> HIDE DEF u, a, r
<1>7. Orderly(Append(table, u))
  BY <1>2, <1>3, <1>4, <1>5, OneMoreMessage
<1>8. Orderly(longer)
  BY <1>4, <1>5, <1>7, OneMoreMessage
<1>9. DOMAIN longer = 1..(m + 2) /\ longer[m + 1] = u /\ longer[m + 2] = a
      /\ \A i \in 1..m : longer[i] = table[i]
  BY <1>2, <1>4
<1>10. \A i \in 1..(m + 2) : i \in 1..m \/ i = m + 1 \/ i = m + 2
  BY <1>2
<1> HIDE DEF longer, m
<1>11. ASSUME NEW j \in 1..(m + 2)
       PROVE  /\ \E i \in 1..(k + 1) : longer[j].run = order[i]
              /\ longer[j].role = "assistant" => longer[j].size = 1
  <2>1. CASE j \in 1..m
    BY <1>1, <1>2, <1>9, <2>1 DEF ExchangesOf
  <2>2. CASE j \notin 1..m
    BY <1>1, <1>5, <1>9, <1>10, <2>2 DEF r
  <2> QED
    BY <2>1, <2>2
<1>12. ExchangesOf(longer, order, k + 1)
  BY <1>8, <1>9, <1>11 DEF ExchangesOf
<1> QED
  BY <1>6, <1>12 DEF r

\* The conversation of earlier runs, one exchange after the other, is in order.
LEMMA FlattenedExchanges ==
  ASSUME NEW n \in Nat, NEW order \in [1..n -> Runs], Distinct(order, n)
  PROVE  ExchangesOf(FlattenSeq([i \in 1..n |-> Exchange(order[i])]), order, n)
<1> DEFINE seqs == [i \in 1..n |-> Exchange(order[i])]
<1>1. seqs \in [1..n -> Seq(Message)]
  <2>1. \A i \in 1..n : order[i] \in Runs
    OBVIOUS
  <2>2. \A i \in 1..n : Exchange(order[i]) \in Seq(Message)
    BY <2>1, ExchangeTypes
  <2> QED
    BY <2>2
<1>2. \A i \in 1..n : seqs[i] = Exchange(order[i])
  OBVIOUS
<1> HIDE DEF seqs
<1>3. PICK joined :
        IsJoined(joined, seqs, n) /\ FlattenSeq(seqs) = IF n = 0 THEN <<>> ELSE joined[n]
  BY <1>1, FlattenedIsJoined
<1>4. ExchangesOf(<<>>, order, 0)
  <2>1. <<>> \in Seq(Message) /\ \A i \in DOMAIN <<>> : FALSE
    OBVIOUS
  <2> QED
    BY <2>1 DEF ExchangesOf, Orderly
<1> DEFINE P == {k \in Nat : k + 1 <= n => ExchangesOf(joined[k + 1], order, k + 1)}
<1>5. 0 \in P
  <2> SUFFICES ASSUME 1 <= n PROVE ExchangesOf(joined[1], order, 1)
    OBVIOUS
  <2>1. 1 \in 1..n /\ 0 \in Nat /\ 0 + 1 = 1 /\ 0 + 1 <= n
    OBVIOUS
  <2>2. joined[1] = Exchange(order[1]) /\ Exchange(order[1]) \in Seq(Message)
    BY <1>1, <1>2, <1>3, <2>1 DEF IsJoined
  <2>3. <<>> \o Exchange(order[1]) = Exchange(order[1])
    BY <2>2
  <2>4. ExchangesOf(<<>> \o Exchange(order[0 + 1]), order, 0 + 1)
    BY <1>4, <2>1, OneMoreExchange
  <2>5. ExchangesOf(<<>> \o Exchange(order[1]), order, 1)
    BY <2>1, <2>4
  <2> QED
    BY <2>2, <2>3, <2>5
<1>6. ASSUME NEW k \in Nat, k \in P PROVE k + 1 \in P
  <2> SUFFICES ASSUME (k + 1) + 1 <= n
               PROVE  ExchangesOf(joined[(k + 1) + 1], order, (k + 1) + 1)
    OBVIOUS
  <2>1. k + 1 <= n /\ (k + 1) + 1 \in 1..n /\ ((k + 1) + 1) - 1 = k + 1 /\ (k + 1) + 1 # 1
        /\ k + 1 \in Nat
    OBVIOUS
  <2>2. ExchangesOf(joined[k + 1], order, k + 1)
    BY <1>6, <2>1
  <2>3. joined[(k + 1) + 1] = joined[k + 1] \o Exchange(order[(k + 1) + 1])
    BY <1>2, <1>3, <2>1 DEF IsJoined
  <2> QED
    BY <2>1, <2>2, <2>3, OneMoreExchange
<1> HIDE DEF P
<1>7. \A k \in Nat : k \in P
  BY <1>5, <1>6, NatSet
<1>8. CASE n # 0
  <2>1. n - 1 \in Nat /\ (n - 1) + 1 = n
    BY <1>8
  <2>2. ExchangesOf(joined[n], order, n)
    BY <1>7, <2>1 DEF P
  <2> QED
    BY <1>3, <1>8, <2>2 DEF seqs
<1>9. CASE n = 0
  BY <1>3, <1>4, <1>9 DEF seqs
<1> QED
  BY <1>8, <1>9

\* In the beginning the table holds the exchanges of the earlier runs.
LEMMA ConversationInit == SessionInit => ConversationInv
<1> SUFFICES ASSUME SessionInit PROVE ConversationInv
  OBVIOUS
<1> DEFINE n == Cardinality(Earlier)
           order == SetToSeq(Earlier)
<1>1. n \in Nat /\ ExistsBijection(1..n, Earlier)
  BY SessionAssumption, FS_CardinalityType
<1>2. PICK f : f \in Bijection(1..n, Earlier)
  BY <1>1 DEF ExistsBijection
<1>3. f \in [1..n -> Earlier] /\ IsInjective(f)
  BY <1>2 DEF Bijection, Injection
<1>4. order \in [1..n -> Earlier] /\ IsInjective(order)
  BY <1>3 DEF SetToSeq
<1>5. messages = FlattenSeq([i \in 1..n |-> Exchange(order[i])])
  BY DEF SessionInit
<1> HIDE DEF n, order
<1>6. order \in [1..n -> Runs] /\ Distinct(order, n)
  BY <1>4, SessionAssumption DEF IsInjective, Distinct
<1>7. ExchangesOf(messages, order, n)
  BY <1>1, <1>5, <1>6, FlattenedExchanges
<1>8. /\ created = Earlier /\ replied = [run : Earlier, size : {1}]
      /\ graph = [r \in Runs |->
           [result |-> IF r \in Earlier THEN [at |-> "ended", reply |-> 1] ELSE Open,
            history |-> <<>>, workspace |-> NoWorkspace]]
      /\ proc = [p \in Processes |-> Idle] /\ cleared = {} /\ receipts = {}
      /\ active = NoWorkspace /\ directories = Repositories
      /\ maker = [w \in Workspaces |-> NoRun]
  BY DEF SessionInit
<1>9. \A j \in DOMAIN messages : messages[j].run \in Earlier
  BY <1>4, <1>7 DEF ExchangesOf
<1>10. \A r \in Earlier : IsReply(r, 1, replied)
  <2>1. \A r \in Earlier : [run |-> r, size |-> 1] \in replied
    BY <1>8
  <2> QED
    BY <2>1 DEF IsReply
<1>11. TableInv
  BY <1>7, <1>8, <1>9, <1>10 DEF TableInv, ExchangesOf
<1>12. ProcessesInv
  BY <1>8, IdleType DEF ProcessesInv, Sound, Submitting, Invocation
<1>13. GraphsInv
  <2>1. \A r \in Runs : graph[r].history = <<>> /\ DOMAIN graph[r].history = {}
    BY <1>8
  <2>2. \A r \in Runs : graph[r].result.reply > 0 => r \in Earlier /\ graph[r].result.reply = 1
    BY <1>8, IdleType
  <2>3. \A answer \in replied : answer.run \in created
    BY <1>8
  <2> QED
    BY <1>10, <2>1, <2>2, <2>3 DEF GraphsInv, Remembers
<1>14. graph \in [Runs -> GraphState]
  <2>1. \A r \in Runs : (IF r \in Earlier THEN [at |-> "ended", reply |-> 1] ELSE Open) \in GraphResult
    BY IdleType DEF GraphResult
  <2> QED
    BY <1>8, <2>1 DEF GraphState
<1>15. SessionTypeOK
  <2>1. messages \in Seq(Message)
    BY <1>7 DEF ExchangesOf, Orderly
  <2>2. created \subseteq Runs /\ directories \subseteq Workspaces /\ replied \subseteq Reply
    BY <1>8, SessionAssumption DEF Reply
  <2>3. \A p \in Processes : proc[p].step \notin Invocation
    BY <1>8, IdleType DEF Invocation
  <2> QED
    BY <1>8, <1>14, <2>1, <2>2, <2>3, IdleType DEF SessionTypeOK
<1> QED
  BY <1>11, <1>12, <1>13, <1>15 DEF ConversationInv

---------------------------------------------------------------------------
\* The invariant of the conversation holds in every state of the session.
THEOREM ConversationInvariant == SessionSpec => []ConversationInv
BY ConversationInit, ConversationNext, PTL DEF SessionSpec

\* Tables, checkpoints and processes keep their shape, with histories of any length.
THEOREM SessionTypes == SessionSpec => []SessionTypeOK
<1>1. ConversationInv => SessionTypeOK
  BY DEF ConversationInv
<1> QED
  BY <1>1, ConversationInvariant, PTL

\* The two loops of _load_conversation_context select the newest complete turns within
\* the limits, for every table that submissions, answers and /clear can leave.
THEOREM HistoryIsNewest == SessionSpec => []HistoryIsNewestSuffix
<1>1. ConversationInv => HistoryIsNewestSuffix
  <2> SUFFICES ASSUME ConversationInv, NEW limit \in Limits
               PROVE  Select(messages, limit) = InOrder(messages, Fitting(messages, limit))
    BY DEF HistoryIsNewestSuffix
  <2>1. Orderly(messages) /\ limit \in [turns : Nat, chars : Nat]
    BY SessionAssumption DEF ConversationInv, TableInv
  <2> QED
    BY <2>1, SelectIsNewestFitting
<1> QED
  BY <1>1, ConversationInvariant, PTL

\* What a run is shown are prompts of other runs with replies their graphs ended with,
\* however many processes work on a run, and whichever of them ends or is cancelled first.
THEOREM ShownTurnsTheorem == SessionSpec => []ShownTurnsWereAnswered
<1>1. ConversationInv => ShownTurnsWereAnswered
  BY DEF ConversationInv, GraphsInv, Remembers, ShownTurnsWereAnswered
<1> QED
  BY <1>1, ConversationInvariant, PTL

\* Only the first transaction of a submission leads to the second.
LEMMA StepAfter ==
  ASSUME ConversationInv, NEW q \in Processes, Operation(q), ~\E r \in Runs : BeginSubmit(q, r)
  PROVE  \E x : proc' = proc \/ (proc' = [proc EXCEPT ![q] = x] /\ x.step # "workspace")
<1> DEFINE Moves == \E x : proc' = proc \/ (proc' = [proc EXCEPT ![q] = x] /\ x.step # "workspace")
<1>1. proc[q] \in Process
  BY Before
<1>2. ASSUME NEW step, NEW w, Within(q, step, w), step # "workspace"
      PROVE  Moves
  <2>1. [proc[q] EXCEPT !.step = step, !.workspace = w].step = step
    BY <1>1 DEF Process
  <2> QED
    BY <1>2, <2>1 DEF Within
<1>3. Stop(q) => Moves
  BY IdleType DEF Stop
<1> SUFFICES Moves
  OBVIOUS
<1>4. ASSUME NEW r \in Runs, Resume(q, r) PROVE Moves
  <2>1. [Idle EXCEPT !.step = "graph", !.run = r, !.result = graph[r].result].step = "graph"
    BY DEF Idle
  <2> QED
    BY <1>4, <2>1 DEF Resume
<1>5. CASE ReadWorkspace(q)
  <2>1. [proc[q] EXCEPT !.step = "create", !.workspace = active].step = "create"
    BY <1>1 DEF Process
  <2> QED
    BY <1>5, <2>1 DEF ReadWorkspace
<1>6. CASE CreateRun(q)
  <2>1. [Idle EXCEPT !.step = "graph", !.run = proc[q].run].step = "graph"
    BY DEF Idle
  <2> QED
    BY <1>6, <2>1 DEF CreateRun
<1>7. CASE UseTool(q)
  BY <1>2, <1>7 DEF UseTool
<1>8. CASE MakeDirectory(q)
  BY <1>2, <1>8 DEF MakeDirectory
<1>9. CASE InitEnds(q)
  BY <1>2, <1>9 DEF InitEnds
<1>10. CASE PersistResult(q)
  BY <1>2, <1>3, <1>10 DEF PersistResult
<1>11. CASE GraphReturns(q)
  <2>1. PICK result : proc' = [proc EXCEPT ![q] = [@ EXCEPT !.step = "record", !.result = result]]
    BY <1>11 DEF GraphReturns
  <2>2. [proc[q] EXCEPT !.step = "record", !.result = result].step = "record"
    BY <1>1 DEF Process
  <2> QED
    BY <2>1, <2>2
<1>12. CASE Record(q) \/ Interruption(q) \/ FinishSelect(q)
  BY <1>3, <1>12 DEF Record, Interruption, FinishSelect
<1>13. CASE Clear(q)
  BY <1>13 DEF Clear
<1>14. ASSUME NEW w \in Workspaces, BeginSelect(q, w) PROVE Moves
  <2>1. [Idle EXCEPT !.step = "select", !.workspace = w, !.row = active].step = "select"
    BY DEF Idle
  <2> QED
    BY <1>14, <2>1 DEF BeginSelect
<1> HIDE DEF Moves
<1> QED
  BY <1>4, <1>5, <1>6, <1>7, <1>8, <1>9, <1>10, <1>11, <1>12, <1>13, <1>14 DEF Operation

\* The step in which a submission reads its history.
LEMMA SubmissionReads ==
  ASSUME ConversationInv, [SessionNext]_vars, NEW p \in Processes,
         At(p, "idle"), proc'[p].step = "workspace"
  PROVE  \E limit \in Limits : proc'[p].history = Select(messages, limit)
<1>1. PICK q \in Processes : Operation(q)
  BY DEF SessionNext, vars, At
<1>2. proc \in [Processes -> Process]
  BY Before
<1>3. Idle.step = "idle"
  BY IdleType
<1>4. CASE \E r \in Runs : BeginSubmit(q, r)
  <2>1. PICK limit \in Limits, r \in Runs : proc' = [proc EXCEPT ![q] =
          [Idle EXCEPT !.step = "workspace", !.run = r, !.history = Select(messages, limit)]]
    BY <1>4 DEF BeginSubmit
  <2>2. q = p
    BY <1>2, <2>1 DEF At
  <2> QED
    BY <1>2, <2>1, <2>2 DEF Idle
<1>5. CASE ~\E r \in Runs : BeginSubmit(q, r)
  <2>1. PICK x : proc' = proc \/ (proc' = [proc EXCEPT ![q] = x] /\ x.step # "workspace")
    BY <1>1, <1>2, <1>3, <1>5, StepAfter
  <2>2. proc'[p].step # "workspace"
    BY <1>2, <2>1 DEF At
  <2> QED
    BY <2>2
<1> QED
  BY <1>4, <1>5

\* A cleared prompt takes part in no later history, with answers that a running or resumed
\* graph files after /clear.
THEOREM ClearedStaysForgotten == SessionSpec => ClearedIsForgotten
<1>1. ConversationInv /\ [SessionNext]_vars =>
        [\A p \in Processes :
           (At(p, "idle") /\ proc'[p].step = "workspace") =>
             \A i \in DOMAIN proc'[p].history : proc'[p].history[i].run \notin cleared]_vars
  BY SubmissionReads, SelectedAreAnswered
<1> QED
  BY <1>1, ConversationInvariant, PTL DEF SessionSpec, ClearedIsForgotten

---------------------------------------------------------------------------
(***************************************************************************)
(* The workspaces.  A directory is removed only by the process that is     *)
(* making a repository of it; mkdir() has given it the name, so nobody     *)
(* else is making it, and it is not finished.  A result that waits to be   *)
(* filed names what its run was given or has made.                         *)
(***************************************************************************)
Given == [r \in Runs |-> graph[r].workspace]

Placed(x, standing, made, given) ==
  /\ x.step = "init" =>
       /\ x.workspace \in standing \ Repositories
       /\ made[x.workspace] = NoRun
  /\ x.step = "persist" =>
       \/ x.workspace \in {NoWorkspace, given[x.run]}
       \/ x.workspace \in Workspaces /\ made[x.workspace] = x.run

WorkspaceInv ==
  /\ RepositoriesStay
  /\ \A p \in Processes : Placed(proc[p], directories, maker, Given)
  /\ \A p, q \in Processes :
       At(p, "init") /\ At(q, "init") /\ proc[p].workspace = proc[q].workspace => p = q

\* A process moves to a place that is sound, and the others' stay so.
LEMMA PlacesStay ==
  ASSUME ConversationInv, WorkspaceInv, NEW p \in Processes, NEW x,
         proc' = [proc EXCEPT ![p] = x], RepositoriesStay',
         Placed(x, directories', maker', Given'),
         \A q \in Processes \ {p} : Placed(proc[q], directories', maker', Given'),
         \A q \in Processes \ {p} :
           x.step = "init" /\ At(q, "init") => proc[q].workspace # x.workspace
  PROVE  WorkspaceInv'
<1>1. proc'[p] = x /\ \A q \in Processes \ {p} : proc'[q] = proc[q]
  BY Before
<1>2. \A q \in Processes : Placed(proc'[q], directories', maker', Given')
  BY <1>1
<1>3. \A q, s \in Processes :
        At(q, "init")' /\ At(s, "init")' /\ proc'[q].workspace = proc'[s].workspace => q = s
  BY <1>1 DEF WorkspaceInv, At
<1> QED
  BY <1>2, <1>3 DEF WorkspaceInv

\* A process moves to no such place, while directories, repositories and what runs were
\* given stay.
LEMMA QuietMove ==
  ASSUME ConversationInv, WorkspaceInv, NEW p \in Processes, NEW x,
         proc' = [proc EXCEPT ![p] = x], UNCHANGED <<directories, maker>>, Given' = Given,
         x.step \notin {"init", "persist"}
  PROVE  WorkspaceInv'
<1>1. RepositoriesStay'
  BY DEF WorkspaceInv, RepositoriesStay
<1>2. Placed(x, directories', maker', Given')
  BY DEF Placed
<1>3. \A q \in Processes : Placed(proc[q], directories', maker', Given')
  BY DEF WorkspaceInv
<1> QED
  BY <1>1, <1>2, <1>3, PlacesStay

\* The operations that touch no directory and file no result.
LEMMA QuietOperation ==
  ASSUME ConversationInv, WorkspaceInv, NEW p \in Processes,
         \/ \E r \in Runs : BeginSubmit(p, r) \/ Resume(p, r)
         \/ ReadWorkspace(p)
         \/ Record(p)
         \/ \E w \in Workspaces : BeginSelect(p, w)
         \/ FinishSelect(p)
  PROVE  WorkspaceInv'
<1>1. UNCHANGED <<directories, maker, graph>>
  BY DEF BeginSubmit, Resume, ReadWorkspace, Record, BeginSelect, FinishSelect, tables, historyVars
<1>2. Given' = Given
  BY <1>1 DEF Given
<1>3. proc[p] \in Process /\ Idle \in Process /\ Idle.step = "idle"
  BY Before, IdleType
<1>4. \E x : proc' = [proc EXCEPT ![p] = x] /\ x.step \notin {"init", "persist"}
  <2>1. CASE \E r \in Runs : BeginSubmit(p, r)
    <3>1. PICK r \in Runs, limit \in Limits : proc' = [proc EXCEPT ![p] =
            [Idle EXCEPT !.step = "workspace", !.run = r, !.history = Select(messages, limit)]]
      BY <2>1 DEF BeginSubmit
    <3>2. [Idle EXCEPT !.step = "workspace", !.run = r, !.history = Select(messages, limit)].step
            = "workspace"
      BY DEF Idle
    <3> QED
      BY <3>1, <3>2
  <2>2. CASE \E r \in Runs : Resume(p, r)
    <3>1. PICK r \in Runs : proc' = [proc EXCEPT ![p] =
            [Idle EXCEPT !.step = "graph", !.run = r, !.result = graph[r].result]]
      BY <2>2 DEF Resume
    <3>2. [Idle EXCEPT !.step = "graph", !.run = r, !.result = graph[r].result].step = "graph"
      BY DEF Idle
    <3> QED
      BY <3>1, <3>2
  <2>3. CASE ReadWorkspace(p)
    <3>1. proc' = [proc EXCEPT ![p] = [proc[p] EXCEPT !.step = "create", !.workspace = active]]
      BY <2>3, Before DEF ReadWorkspace
    <3>2. [proc[p] EXCEPT !.step = "create", !.workspace = active].step = "create"
      BY <1>3 DEF Process
    <3> QED
      BY <3>1, <3>2
  <2>4. CASE \E w \in Workspaces : BeginSelect(p, w)
    <3>1. PICK w \in Workspaces : proc' = [proc EXCEPT ![p] =
            [Idle EXCEPT !.step = "select", !.workspace = w, !.row = active]]
      BY <2>4 DEF BeginSelect
    <3>2. [Idle EXCEPT !.step = "select", !.workspace = w, !.row = active].step = "select"
      BY DEF Idle
    <3> QED
      BY <3>1, <3>2
  <2>5. CASE Record(p) \/ FinishSelect(p)
    BY <1>3, <2>5 DEF Record, FinishSelect, Stop
  <2> QED
    BY <2>1, <2>2, <2>3, <2>4, <2>5
<1> QED
  BY <1>1, <1>2, <1>4, QuietMove

\* A new run is given what its submission has read; the places of others are not its own.
LEMMA CreateRunPlaces ==
  ASSUME ConversationInv, WorkspaceInv, NEW p \in Processes, CreateRun(p)
  PROVE  WorkspaceInv'
<1> DEFINE r == proc[p].run
           x == [Idle EXCEPT !.step = "graph", !.run = r]
           g == [result |-> Open, history |-> proc[p].history, workspace |-> proc[p].workspace]
<1>1. UNCHANGED <<directories, maker>> /\ proc' = [proc EXCEPT ![p] = x]
      /\ graph' = [graph EXCEPT ![r] = g] /\ Submitting(proc[p])
  BY DEF CreateRun, historyVars, At, Submitting
<1>2. x.step = "graph"
  BY DEF Idle
<1>3. r \notin created
  BY <1>1, Before DEF Sound
<1> HIDE DEF x, g, r
<1>4. \A s \in Runs \ {r} : Given'[s] = Given[s]
  BY <1>1, Before DEF Given
<1>5. ASSUME NEW q \in Processes \ {p} PROVE Placed(proc[q], directories', maker', Given')
  <2>1. Placed(proc[q], directories, maker, Given)
    BY DEF WorkspaceInv
  <2>2. proc[q].step = "persist" => proc[q].run \in Runs \ {r}
    <3>1. proc[q].step = "persist" => proc[q].step \in Invocation
      BY DEF Invocation
    <3> QED
      BY <1>3, <3>1, Before DEF Sound
  <2> QED
    BY <1>1, <1>4, <2>1, <2>2 DEF Placed
<1>6. RepositoriesStay'
  BY <1>1 DEF WorkspaceInv, RepositoriesStay
<1>7. Placed(x, directories', maker', Given')
  BY <1>2 DEF Placed
<1> QED
  BY <1>1, <1>2, <1>5, <1>6, <1>7, PlacesStay

\* What a process inside its invocation is after Within.
LEMMA WithinFields ==
  ASSUME ConversationInv, NEW p \in Processes, NEW step, NEW w, Within(p, step, w)
  PROVE  \E x : /\ proc' = [proc EXCEPT ![p] = x]
                /\ x.step = step /\ x.workspace = w /\ x.run = proc[p].run
<1>1. proc[p] \in Process /\ proc \in [Processes -> Process]
  BY Before
<1> DEFINE x == [proc[p] EXCEPT !.step = step, !.workspace = w]
<1>2. x.step = step /\ x.workspace = w /\ x.run = proc[p].run
  BY <1>1 DEF Process
<1>3. proc' = [proc EXCEPT ![p] = x]
  BY DEF Within
<1> QED
  BY <1>2, <1>3

\* A result names the workspace the run was given, or none.
LEMMA UseToolPlaces ==
  ASSUME ConversationInv, WorkspaceInv, NEW p \in Processes, UseTool(p)
  PROVE  WorkspaceInv'
<1>1. UNCHANGED <<directories, maker, graph>> /\ proc[p].step \in Invocation
  BY DEF UseTool, BeforeTool, At, Invocation, historyVars
<1>2. PICK w \in ToolPlaces(proc[p].run) \cup {NoWorkspace} : Within(p, "persist", w)
  BY DEF UseTool
<1>3. PICK x : /\ proc' = [proc EXCEPT ![p] = x]
               /\ x.step = "persist" /\ x.workspace = w /\ x.run = proc[p].run
  BY <1>2, WithinFields
<1>4. Given' = Given /\ proc[p].run \in Runs
  BY <1>1, Before DEF Given
<1>5. Placed(x, directories', maker', Given')
  BY <1>2, <1>3, <1>4 DEF Placed, ToolPlaces, Given
<1>6. RepositoriesStay'
  BY <1>1 DEF WorkspaceInv, RepositoriesStay
<1>7. \A q \in Processes : Placed(proc[q], directories', maker', Given')
  BY <1>1, <1>4 DEF WorkspaceInv
<1> QED
  BY <1>3, <1>5, <1>6, <1>7, PlacesStay

\* A name that is taken is nobody's: no repository has it and no process is making one.
LEMMA MakeDirectoryPlaces ==
  ASSUME ConversationInv, WorkspaceInv, NEW p \in Processes, MakeDirectory(p)
  PROVE  WorkspaceInv'
<1>1. UNCHANGED <<maker, graph>>
  BY DEF MakeDirectory, historyVars
<1>2. PICK w \in Workspaces \ directories :
        directories' = directories \cup {w} /\ Within(p, "init", w)
  BY DEF MakeDirectory
<1>3. PICK x : /\ proc' = [proc EXCEPT ![p] = x]
               /\ x.step = "init" /\ x.workspace = w /\ x.run = proc[p].run
  BY <1>2, WithinFields
<1>4. Given' = Given
  BY <1>1 DEF Given
<1>5. w \notin Repositories /\ maker[w] = NoRun
  BY <1>2 DEF WorkspaceInv, RepositoriesStay
<1>6. Placed(x, directories', maker', Given')
  BY <1>1, <1>2, <1>3, <1>5 DEF Placed
<1>7. RepositoriesStay'
  BY <1>1, <1>2 DEF WorkspaceInv, RepositoriesStay
<1>8. \A q \in Processes : Placed(proc[q], directories', maker', Given')
  BY <1>1, <1>2, <1>4 DEF WorkspaceInv, Placed
<1>9. \A q \in Processes : At(q, "init") => proc[q].workspace # w
  BY <1>2 DEF WorkspaceInv, Placed, At
<1> QED
  BY <1>3, <1>6, <1>7, <1>8, <1>9, PlacesStay

\* The directory that process p gives up is no repository, and nobody else is making it.
LEMMA CleanedUpIsUnfinished ==
  ASSUME ConversationInv, WorkspaceInv, NEW p \in Processes, UNCHANGED maker, Given' = Given,
         directories' \in {directories, CleanedUp(p)}
  PROVE  /\ RepositoriesStay'
         /\ \A q \in Processes \ {p} : Placed(proc[q], directories', maker', Given')
<1>1. CASE directories' = directories
  BY <1>1 DEF WorkspaceInv, RepositoriesStay
<1>2. CASE At(p, "init") /\ directories' = directories \ {proc[p].workspace}
  <2> DEFINE w == proc[p].workspace
  <2>1. w \notin Repositories /\ maker[w] = NoRun
    BY <1>2 DEF WorkspaceInv, Placed, At
  <2>2. RepositoriesStay'
    BY <1>2, <2>1 DEF WorkspaceInv, RepositoriesStay
  <2>3. \A q \in Processes \ {p} : At(q, "init") => proc[q].workspace # w
    BY <1>2 DEF WorkspaceInv
  <2>4. \A q \in Processes \ {p} : Placed(proc[q], directories', maker', Given')
    BY <1>2, <2>3 DEF WorkspaceInv, Placed, At
  <2> QED
    BY <2>2, <2>4
<1> QED
  BY <1>1, <1>2 DEF CleanedUp

\* A repository is finished under the name of its run, or given up.
LEMMA InitEndsPlaces ==
  ASSUME ConversationInv, WorkspaceInv, NEW p \in Processes, InitEnds(p)
  PROVE  WorkspaceInv'
<1> DEFINE w == proc[p].workspace
           r == proc[p].run
<1>1. UNCHANGED graph /\ At(p, "init")
  BY DEF InitEnds
<1>2. Given' = Given
  BY <1>1 DEF Given
<1>3. r \in Runs /\ directories \subseteq Workspaces /\ maker \in [Workspaces -> Runs \cup {NoRun}]
  BY <1>1, Before DEF At, Invocation
<1>4. w \in directories \ Repositories /\ w \in Workspaces /\ maker[w] = NoRun
  BY <1>1, <1>3 DEF WorkspaceInv, Placed, At
<1>5. CASE maker' = [maker EXCEPT ![w] = r] /\ Within(p, "persist", w) /\ UNCHANGED directories
  <2>1. PICK x : /\ proc' = [proc EXCEPT ![p] = x]
                 /\ x.step = "persist" /\ x.workspace = w /\ x.run = r
    BY <1>5, WithinFields
  <2> HIDE DEF w, r
  <2>2. maker'[w] = r /\ \A v \in Workspaces \ {w} : maker'[v] = maker[v]
    BY <1>3, <1>4, <1>5
  <2>3. Placed(x, directories', maker', Given')
    BY <1>4, <2>1, <2>2 DEF Placed
  <2>4. RepositoriesStay'
    BY <1>4, <1>5, <2>2 DEF WorkspaceInv, RepositoriesStay
  <2>5. ASSUME NEW q \in Processes \ {p} PROVE Placed(proc[q], directories', maker', Given')
    <3>1. Placed(proc[q], directories, maker, Given)
      BY DEF WorkspaceInv
    <3>2. At(q, "init") => proc[q].workspace # w
      BY <1>1 DEF WorkspaceInv, w
    <3>3. proc[q].step = "persist" => proc[q].run \in Runs
      BY Before DEF Invocation
    <3>4. proc[q].step = "persist" /\ proc[q].workspace \in Workspaces
            /\ maker[proc[q].workspace] = proc[q].run
          => proc[q].workspace # w
      BY <1>4, <3>3, SessionAssumption
    <3> QED
      BY <1>2, <1>3, <1>5, <2>2, <3>1, <3>2, <3>4 DEF Placed, At
  <2> QED
    BY <2>1, <2>3, <2>4, <2>5, PlacesStay
<1>6. CASE directories' = CleanedUp(p) /\ Within(p, "persist", NoWorkspace) /\ UNCHANGED maker
  <2>1. PICK x : /\ proc' = [proc EXCEPT ![p] = x]
                 /\ x.step = "persist" /\ x.workspace = NoWorkspace
    BY <1>6, WithinFields
  <2>2. Placed(x, directories', maker', Given')
    BY <2>1 DEF Placed
  <2> QED
    BY <1>2, <1>6, <2>1, <2>2, CleanedUpIsUnfinished, PlacesStay
<1> QED
  BY <1>5, <1>6 DEF InitEnds

\* A result is filed, or raises; a graph returns; a process stops.
LEMMA InvocationPlaces ==
  ASSUME ConversationInv, WorkspaceInv, NEW p \in Processes,
         PersistResult(p) \/ GraphReturns(p) \/ Interruption(p)
  PROVE  WorkspaceInv'
<1>1. CASE PersistResult(p)
  <2>1. UNCHANGED <<directories, maker, graph>>
    BY <1>1 DEF PersistResult, historyVars
  <2>2. Given' = Given
    BY <2>1 DEF Given
  <2>3. CASE Stop(p)
    BY <2>1, <2>2, <2>3, IdleType, QuietMove DEF Stop
  <2>4. CASE Within(p, "answer", NoWorkspace)
    <3>1. PICK x : proc' = [proc EXCEPT ![p] = x] /\ x.step = "answer"
      BY <2>4, WithinFields
    <3> QED
      BY <2>1, <2>2, <3>1, QuietMove
  <2> QED
    BY <1>1, <2>3, <2>4 DEF PersistResult
<1>2. CASE GraphReturns(p)
  <2> DEFINE r == proc[p].run
  <2>1. PICK result : /\ graph' = [graph EXCEPT ![r].result = result]
                      /\ proc' = [proc EXCEPT ![p] = [@ EXCEPT !.step = "record", !.result = result]]
    BY <1>2 DEF GraphReturns
  <2>2. UNCHANGED <<directories, maker>> /\ r \in Runs
    BY <1>2, Before DEF GraphReturns, Invocation
  <2>3. graph \in [Runs -> GraphState] /\ graph[r] \in GraphState /\ proc[p] \in Process
        /\ proc \in [Processes -> Process]
    BY <2>2, Before
  <2> DEFINE x == [proc[p] EXCEPT !.step = "record", !.result = result]
             g == [graph[r] EXCEPT !.result = result]
  <2>4. x.step = "record" /\ g.workspace = graph[r].workspace
    BY <2>3 DEF Process, GraphState
  <2>5. proc' = [proc EXCEPT ![p] = x] /\ graph' = [graph EXCEPT ![r] = g]
    BY <2>1
  <2> HIDE DEF x, g, r
  <2>6. \A s \in Runs : graph'[s].workspace = graph[s].workspace
    BY <2>3, <2>4, <2>5
  <2>7. Given' = Given
    BY <2>6 DEF Given
  <2> QED
    BY <2>2, <2>4, <2>5, <2>7, QuietMove
<1>3. CASE Interruption(p)
  <2>1. UNCHANGED <<maker, graph>> /\ proc' = [proc EXCEPT ![p] = Idle]
        /\ directories' \in {directories, CleanedUp(p)}
    BY <1>3 DEF Interruption, Stop, historyVars
  <2>2. Given' = Given
    BY <2>1 DEF Given
  <2>3. Placed(Idle, directories', maker', Given') /\ Idle.step # "init"
    BY IdleType DEF Placed
  <2> QED
    BY <2>1, <2>2, <2>3, CleanedUpIsUnfinished, PlacesStay
<1> QED
  BY <1>1, <1>2, <1>3

\* Every operation of every process keeps the workspaces.
LEMMA WorkspaceNext == ConversationInv /\ WorkspaceInv /\ [SessionNext]_vars => WorkspaceInv'
<1> SUFFICES ASSUME ConversationInv, WorkspaceInv, [SessionNext]_vars PROVE WorkspaceInv'
  OBVIOUS
<1>1. CASE UNCHANGED <<directories, graph, maker, proc>>
  BY <1>1 DEF WorkspaceInv, RepositoriesStay, Given, At
<1>2. CASE UNCHANGED vars
  BY <1>1, <1>2 DEF vars, historyVars
<1>3. ASSUME NEW p \in Processes, Operation(p) PROVE WorkspaceInv'
  <2>1. CASE Clear(p)
    BY <1>1, <2>1 DEF Clear
  <2> QED
    BY <1>3, <2>1, QuietOperation, CreateRunPlaces, UseToolPlaces, MakeDirectoryPlaces,
       InitEndsPlaces, InvocationPlaces DEF Operation
<1> QED
  BY <1>2, <1>3 DEF SessionNext

\* In the beginning the repositories of earlier days exist and none is being made.
LEMMA WorkspaceInit == SessionInit => WorkspaceInv
<1> SUFFICES ASSUME SessionInit PROVE WorkspaceInv
  OBVIOUS
<1>1. /\ directories = Repositories /\ maker = [w \in Workspaces |-> NoRun]
      /\ \A p \in Processes : proc[p] = Idle
  BY DEF SessionInit
<1>2. RepositoriesStay
  BY <1>1 DEF RepositoriesStay
<1>3. \A p \in Processes : Placed(proc[p], directories, maker, Given)
  BY <1>1, IdleType DEF Placed
<1>4. \A p \in Processes : ~At(p, "init")
  BY <1>1, IdleType DEF At
<1> QED
  BY <1>2, <1>3, <1>4 DEF WorkspaceInv

\* The invariant of the workspaces holds in every state of the session.
THEOREM WorkspaceInvariant == SessionSpec => [](ConversationInv /\ WorkspaceInv)
BY ConversationInvariant, WorkspaceInit, WorkspaceNext, PTL DEF SessionSpec

\* No finished repository is ever removed, by whatever processes fail or are cancelled while
\* they try for its name.
THEOREM FinishedRepositoriesStay == SessionSpec => []RepositoriesStay
<1>1. WorkspaceInv => RepositoriesStay
  BY DEF WorkspaceInv
<1> QED
  BY <1>1, WorkspaceInvariant, PTL

\* A step that moves the session to another workspace is a selection or a run's one result.
LEMMA MovesAreResults ==
  ASSUME ConversationInv, WorkspaceInv, [SessionNext]_vars, active' # active
  PROVE  \/ \E p \in Processes : At(p, "select") /\ active' = proc[p].workspace
         \/ \E r \in Runs :
              /\ receipts' = receipts \cup {r} /\ r \notin receipts
              /\ active' = graph[r].workspace \/ maker[active'] = r
<1>1. PICK p \in Processes : Operation(p)
  BY DEF SessionNext, vars, tables
<1>2. PersistResult(p) \/ FinishSelect(p)
  BY <1>1 DEF Operation, BeginSubmit, Resume, ReadWorkspace, CreateRun, UseTool, MakeDirectory,
       InitEnds, GraphReturns, Record, Interruption, Clear, BeginSelect, tables
<1>3. CASE FinishSelect(p)
  BY <1>3 DEF FinishSelect
<1>4. CASE PersistResult(p)
  <2> DEFINE r == proc[p].run
  <2>1. /\ At(p, "persist") /\ r \notin receipts /\ receipts' = receipts \cup {r}
        /\ active' = proc[p].workspace /\ proc[p].workspace # NoWorkspace
    BY <1>4 DEF PersistResult, ActiveAfter
  <2>2. r \in Runs
    BY <2>1, Before DEF At, Invocation
  <2>3. Placed(proc[p], directories, maker, Given)
    BY DEF WorkspaceInv
  <2> QED
    BY <2>1, <2>2, <2>3 DEF Placed, At, Given
<1> QED
  BY <1>2, <1>3, <1>4

\* A result never moves the session to a workspace its run was not given or has not made.
THEOREM ResultsStay == SessionSpec => ResultsStayWhereTheyRan
<1>1. ConversationInv /\ WorkspaceInv /\ [SessionNext]_vars =>
        [active' # active =>
           \/ \E p \in Processes : At(p, "select") /\ active' = proc[p].workspace
           \/ \E r \in Runs :
                /\ receipts' = receipts \cup {r} /\ r \notin receipts
                /\ active' = graph[r].workspace \/ maker[active'] = r]_vars
  BY MovesAreResults
<1> QED
  BY <1>1, WorkspaceInvariant, PTL DEF SessionSpec, ResultsStayWhereTheyRan

=============================================================================

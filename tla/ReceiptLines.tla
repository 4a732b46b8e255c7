---------------------------- MODULE ReceiptLines ----------------------------
(* One saved receipt: its lines (ReceiptItem), each with a product and a      *)
(* price, and the rows of the Price table they have written. Votes and        *)
(* rejections, debounced autosaves, swipes that read the line beforehand and  *)
(* heals from a retaken photo change them, each in a transaction of its own.  *)

EXTENDS Integers, SequencesExt

CONSTANTS
  Product,      \* StoreProduct ids
  Foreign,      \* those of other chains than the receipt's
  Candidates,   \* what the matcher can propose for a line, the best first
  LineValue,    \* prices of a line; 0 stands for all that are not positive
  Recorded,     \* the lines a receipt is saved with
  Swiper,       \* swipes
  MaxHeals, MaxAsked

ASSUME ReceiptAssumption ==
  /\ Product \subseteq Nat \ {0} /\ Foreign \subseteq Product /\ LineValue \subseteq Nat
  /\ Candidates \subseteq Seq([sp : Product, strong : BOOLEAN])

Own == Product \ Foreign

VARIABLES
  items,      \* ReceiptItem by lineIdx; answer is what the user said last of a line's product
  observed,   \* Price: this receipt's row for each product
  swipe,      \* what each swipe has read of its line
  retake,     \* the lines a heal has read
  heals,      \* how often replaceReceiptItems has run, which gives each line another id
  asked       \* requests so far

lineVars == <<items, observed, swipe, retake, heals, asked>>

Silent == [said |-> "nothing", sp |-> 0, crossed |-> FALSE]
Said(what, p) == [said |-> what, sp |-> p, crossed |-> FALSE]
NoRow == [owner |-> 0, value |-> 0, verified |-> FALSE]
NoSwipe == [root |-> 0, heals |-> 0, ok |-> FALSE]
NoRetake == <<>>

Linked(l) == l.sp # 0
OwnRows(l) == {p \in Product : observed[p].owner = l.root}
LinesNaming(p) == {items[k].root : k \in {j \in DOMAIN items : items[j].sp = p}}
Unverified(rows, ps) ==
  [p \in Product |-> IF p \in ps THEN [rows[p] EXCEPT !.verified = FALSE] ELSE rows[p]]

Line(root, sp, value, implausible, alts) ==
  [root |-> root, sp |-> sp, confirmed |-> sp # 0, value |-> value,
   implausible |-> implausible, alts |-> alts, answer |-> Silent]

\* A line is known by its place in the receipt it was saved with.
ASSUME RecordedAssumption ==
  /\ Recorded \subseteq Seq([root : Nat, sp : Product \cup {0}, confirmed : BOOLEAN, value : LineValue,
                             implausible : BOOLEAN, alts : Seq([sp : Product, strong : BOOLEAN]),
                             answer : {Silent}])
  /\ \A saved \in Recorded : \A k \in DOMAIN saved : saved[k].root = k

\* createPrice overwrites the row a product has and leaves it to its owner.
createPrice(rows, p, root, value, verified) ==
  [rows EXCEPT ![p] = [owner |-> IF @.owner = 0 THEN root ELSE @.owner,
                       value |-> value, verified |-> verified]]

\* persistReceiptPrices writes the rows in the order of the lines, those the matching has
\* verified as verified; a clearance price or one the store has already is skipped.
savedPrices(lines, skipped, verified) ==
  FoldLeft(LAMBDA rows, l : IF Linked(l) /\ l.value > 0 /\ ~l.implausible /\ l.root \notin skipped
                            THEN createPrice(rows, l.sp, l.root, l.value, l.root \in verified) ELSE rows,
           [p \in Product |-> NoRow], lines)

ReceiptInit ==
  /\ items \in Recorded
  /\ \E skipped, verified \in SUBSET DOMAIN items : observed = savedPrices(items, skipped, verified)
  /\ swipe = [s \in Swiper |-> NoSwipe] /\ retake = NoRetake /\ heals = 0 /\ asked = 0

Put(k, l) == items' = [items EXCEPT ![k] = l]
Rest == UNCHANGED <<swipe, retake, heals>>

-----------------------------------------------------------------------------
\* castReceiptLineVote, "identical": a yes to the product; the price is believed
\* unless it is implausible. Every row of a line of this product is verified.
confirmLine(k) ==
  LET l == items[k]
  IN  /\ Linked(l)
      /\ Put(k, [l EXCEPT !.confirmed = TRUE, !.answer = Said("yes", l.sp)])
      /\ observed' = IF l.implausible THEN observed
                     ELSE [p \in Product |-> IF observed[p].owner \in LinesNaming(l.sp)
                                             THEN [observed[p] EXCEPT !.verified = TRUE] ELSE observed[p]]
      /\ Rest

\* What the card of an unlinked line proposes is one of its candidates.
Proposes(k, p) == ~Linked(items[k]) /\ \E i \in DOMAIN items[k].alts : items[k].alts[i].sp = p

\* A yes to it links the line; a product of another chain is minted, or found again, in
\* the receipt's (mintProvisionalSp).
linkProposal(k, p) ==
  /\ Proposes(k, p)
  /\ \E q \in IF p \in Own THEN {p} ELSE Own :
       Put(k, [items[k] EXCEPT !.sp = q, !.confirmed = TRUE, !.answer = Said("yes", q)])
  /\ UNCHANGED observed /\ Rest

\* A no to it leaves the line unlinked.
rejectProposal(k, p) ==
  /\ Proposes(k, p) /\ Put(k, [items[k] EXCEPT !.answer = Said("no", p)])
  /\ UNCHANGED observed /\ Rest

\* Fault: a cleared line's price keeps its verification.
ClearUnverifiesNone(l) == observed
ClearUnverifies(l) ==
  IF l.value > 0 THEN Unverified(observed, {p \in Product : observed[p].owner \in LinesNaming(l.sp)})
                 ELSE observed

\* applyDemotion: the best of the other strong candidates takes the product's place if it
\* is of the receipt's chain, and the Price row stays; otherwise the line is unlinked.
\* (The header of the receipt names its chain. A blob that does not would have the line
\* unlinked and its price left as it is.)
applyDemotion(k, rejected) ==
  LET l == items[k]
      runnersUp == {i \in DOMAIN l.alts : l.alts[i].strong /\ l.alts[i].sp \notin {rejected, l.sp}}
      best == l.alts[Min(runnersUp)].sp
      no == [l EXCEPT !.answer = Said("no", l.sp)]
  IN  /\ IF runnersUp # {} /\ best \in Own
         THEN Put(k, [no EXCEPT !.sp = best, !.confirmed = TRUE]) /\ UNCHANGED observed
         ELSE Put(k, [no EXCEPT !.sp = 0, !.confirmed = FALSE]) /\ observed' = ClearUnverifies(l)
      /\ Rest

\* "similar" and "different" votes and rejectReceiptLineMatch.
demoteReceiptLineDirect(k) == Linked(items[k]) /\ applyDemotion(k, items[k].sp)

\* A "different" vote on two products demotes the first line that has one of
\* them, when the other is its best candidate.
demoteRejectedReceiptLine(a, b) ==
  LET other(l) == IF l.sp = a THEN b ELSE a
      hit == {k \in DOMAIN items : /\ items[k].sp \in {a, b} /\ items[k].alts # <<>>
                                   /\ Head(items[k].alts).sp = other(items[k])}
  IN  /\ hit # {}
      /\ LET k == Min(hit) IN applyDemotion(k, other(items[k]))

-----------------------------------------------------------------------------
\* Fault: the product of any blob wins over the stored one.
AnyBlobRelinks(manual, l, sp) == sp # l.sp /\ sp \in Own \cup {0}
Relinks(manual, l, sp) == manual /\ sp # l.sp /\ sp \in Own \cup {0}

\* The rows of a relinked line: its own goes along, unless the product's place is taken,
\* and one is written when it has none.
MoveRow(l, sp, value) ==
  LET own == OwnRows(l)
  IN  IF sp = 0 THEN Unverified(observed, own)
      ELSE IF own = {} THEN IF value > 0 THEN createPrice(observed, sp, l.root, value, FALSE) ELSE observed
      ELSE LET p == CHOOSE q \in own : TRUE
           IN  IF p = sp \/ observed[sp].owner # 0 THEN Unverified(observed, own)
               ELSE [observed EXCEPT ![p] = NoRow, ![sp] = [observed[p] EXCEPT !.verified = FALSE]]

\* A new price reaches the line's own row if it is positive, and takes its verification.
Reprice(rows, l, value) ==
  IF value = l.value \/ value = 0 THEN rows
  ELSE [p \in Product |-> IF rows[p].owner = l.root
                          THEN [rows[p] EXCEPT !.value = value, !.verified = FALSE] ELSE rows[p]]

\* applyReceiptAutosave, for one line of the blob: the line's price is the client's, its
\* product only when the client marks it as picked by hand, with the candidates the client
\* had for it if it sends any.
applyReceiptAutosave(k, value, manual, sp) ==
  LET l == items[k]
      relinked == Relinks(manual, l, sp)
      saved == [l EXCEPT !.value = value]
      picked == [saved EXCEPT !.sp = sp, !.confirmed = FALSE, !.answer = IF manual THEN Silent ELSE @]
  IN  /\ IF relinked THEN \E alts \in Candidates \cup {l.alts} : Put(k, [picked EXCEPT !.alts = alts])
                     ELSE Put(k, saved)
      /\ observed' = Reprice(IF relinked THEN MoveRow(l, sp, value) ELSE observed, l, value)
      /\ Rest

-----------------------------------------------------------------------------
\* castSwipeVote and undoSwipeVote read the line's id and that it is linked, ...
resolveLineKey(s, k, ok) ==
  /\ swipe[s] = NoSwipe /\ Linked(items[k])
  /\ swipe' = [swipe EXCEPT ![s] = [root |-> items[k].root, heals |-> heals, ok |-> ok]]
  /\ UNCHANGED <<items, observed, retake, heals>>

\* ... and later verify or unverify the row of that id, if it is still there.
applyLinePriceEffect(s) ==
  LET h == swipe[s]
  IN  /\ h # NoSwipe
      /\ observed' = [p \in Product |-> IF observed[p].owner = h.root /\ h.heals = heals
                                        THEN [observed[p] EXCEPT !.verified = h.ok] ELSE observed[p]]
      /\ swipe' = [swipe EXCEPT ![s] = NoSwipe]
      /\ UNCHANGED <<items, retake, heals>>

dropSwipe(s) ==
  /\ swipe[s] # NoSwipe /\ swipe' = [swipe EXCEPT ![s] = NoSwipe]
  /\ UNCHANGED <<items, observed, retake, heals>>

-----------------------------------------------------------------------------
\* healReceiptFromRetake reads the lines, outside of the transaction that replaces them.
readForHeal ==
  /\ retake = NoRetake /\ heals < MaxHeals /\ retake' = items
  /\ UNCHANGED <<items, observed, swipe, heals>>

\* computeHealPlan: never the product of a line that has one, ...
HealsMatch(l) == ~l.confirmed /\ ~Linked(l)
\* ... and the price if the user confirmed the line (when the sum gets closer to the
\* total) or it was missing or implausible.
HealsPrice(l) == l.confirmed \/ l.value = 0 \/ l.implausible

Offers(c) == c # <<>> /\ Head(c).sp \in Own

Repriced(l) ==
  {l} \cup {[l EXCEPT !.value = v, !.implausible = FALSE] : v \in {w \in LineValue \ {0} : HealsPrice(l)}}

HealedLine(l) ==
  Repriced(l) \cup UNION {{[m EXCEPT !.sp = Head(c).sp, !.confirmed = FALSE, !.alts = c] : m \in Repriced(l)} :
                         c \in {d \in Candidates : HealsMatch(l) /\ Offers(d)}}

\* Lines that are still unlinked get new candidates, and the first if it is strong.
Rematched(l) ==
  IF Linked(l) THEN {l}
  ELSE {l} \cup {[l EXCEPT !.alts = c, !.confirmed = FALSE,
                           !.sp = IF Offers(c) /\ Head(c).strong THEN Head(c).sp ELSE 0] : c \in Candidates}

Outcomes(l) == UNION {Rematched(m) : m \in HealedLine(l)}

\* A line the first photo has missed.
Recovered(root, p, v) == Line(root, p, v, FALSE, <<>>)

\* What was answered since the lines were read is not in what replaces them.
Crossed(k, l) ==
  IF items[k].answer = l.answer THEN l
  ELSE [l EXCEPT !.answer = [items[k].answer EXCEPT !.crossed = TRUE]]

\* replaceReceiptItems: the lines get new ids, and the rows of the old ones go with them.
replaceReceiptItems ==
  /\ retake # NoRetake
  /\ \E healed \in [DOMAIN retake -> UNION {Outcomes(retake[k]) : k \in DOMAIN retake}] :
       /\ \A k \in DOMAIN retake : healed[k] \in Outcomes(retake[k])
       /\ \/ items' = [k \in DOMAIN retake |-> Crossed(k, healed[k])]
          \/ \E at \in 1 .. Len(retake) + 1, p \in Own \cup {0}, v \in LineValue \ {0} :
               items' = InsertAt([k \in DOMAIN retake |-> Crossed(k, healed[k])], at,
                                 Recovered(Len(retake) + 1, p, v))
  /\ observed' = [p \in Product |-> NoRow]
  /\ retake' = NoRetake /\ heals' = heals + 1 /\ UNCHANGED swipe

giveUpHeal == retake # NoRetake /\ retake' = NoRetake /\ UNCHANGED <<items, observed, swipe, heals>>

-----------------------------------------------------------------------------
ReceiptNext ==
  \/ /\ asked < MaxAsked /\ asked' = asked + 1
     /\ \/ \E k \in DOMAIN items :
             \/ confirmLine(k) \/ demoteReceiptLineDirect(k)
             \/ \E p \in Product : linkProposal(k, p) \/ rejectProposal(k, p)
             \/ \E value \in LineValue, manual \in BOOLEAN, sp \in Product \cup {0} :
                  applyReceiptAutosave(k, value, manual, sp)
             \/ \E s \in Swiper, ok \in BOOLEAN : resolveLineKey(s, k, ok)
        \/ \E a, b \in Product : a # b /\ demoteRejectedReceiptLine(a, b)
        \/ readForHeal
  \/ /\ UNCHANGED asked
     /\ (\E s \in Swiper : applyLinePriceEffect(s) \/ dropSwipe(s)) \/ replaceReceiptItems \/ giveUpHeal

ReceiptSpec == ReceiptInit /\ [][ReceiptNext]_lineVars

-----------------------------------------------------------------------------
\* What the user said last of a line's product stands, through autosaves of stale blobs,
\* swipes and heals: a product that was confirmed stays and stays confirmed, one that was
\* rejected is not on the line as a confirmed one - unless a heal had read the line before
\* the answer and replaced it afterwards (applyReceiptAutosave, healReceiptFromRetake).
AnswersStand ==
  \A k \in DOMAIN items :
    LET l == items[k]
    IN  ~l.answer.crossed => /\ l.answer.said = "yes" => l.sp = l.answer.sp /\ l.confirmed
                             /\ l.answer.said = "no" => ~(l.sp = l.answer.sp /\ l.confirmed)

\* A row of the Price table says what its line says.
Carries(p, k) == observed[p].owner = items[k].root /\ items[k].sp = p /\ items[k].value = observed[p].value

\* A verified price that ceases to be its line's, whatever changed either of them, ceases
\* to be verified - except when a rejection puts the runner-up in its product's place (the
\* line is confirmed then), and when the line's price is not positive any more.
LeftRowsAreUnverified ==
  [][\A p \in Product, k \in DOMAIN items :
       Carries(p, k) /\ ~Carries(p, k)' /\ observed'[p].verified
         => items'[k].confirmed \/ items'[k].value = 0]_lineVars
=============================================================================

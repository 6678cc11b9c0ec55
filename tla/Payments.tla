------------------------------- MODULE Payments -------------------------------
(***************************************************************************)
(* The payment review screen (PaymentsView.tsx): the payments students     *)
(* reported, one of which is verified, or rejected for a reason that the   *)
(* student is told.                                                        *)
(***************************************************************************)
EXTENDS FiniteSets

CONSTANTS
    Row,       \* payments reported
    CallId     \* bound: requests in flight at a time

VARIABLES ui, calls

vars == <<ui, calls>>

Decision == {"VERIFIED", "REJECTED"}
Review == [row : Row, decision : Decision]
Filter == {"ALL", "PENDING", "VERIFIED", "REJECTED"}

\* What a review sends: `note` is the review in whose dialog the text was
\* typed, or nothing.
NoCall == [kind |-> "none"]
Call ==
    [kind : {"load"}, after : {"nothing", "review"}] \cup
    [kind : {"review"}, review : Review, note : SUBSET Review]

\* `rows` maps each payment held to the status it was read with.
TypeOK ==
    /\ ui \in [rows : UNION {[S -> Filter \ {"ALL"}] : S \in SUBSET Row}, filter : Filter,
               loading : BOOLEAN, reviewing : SUBSET Review, note : SUBSET Review]
    /\ calls \in [CallId -> Call \cup {NoCall}]

\* The payments listed, under the status filter.
Shown == {row \in DOMAIN ui.rows : ui.filter \in {"ALL", ui.rows[row]}}

Busy ==
    \E i \in CallId :
        \/ calls[i].kind = "review"
        \/ calls[i].kind = "load" /\ calls[i].after = "review"

Init ==
    \E i \in CallId :
        /\ ui = [rows |-> [row \in {} |-> "PENDING"], filter |-> "ALL", loading |-> TRUE,
                 reviewing |-> {}, note |-> {}]
        /\ calls = [c \in CallId |-> IF c = i THEN [kind |-> "load", after |-> "nothing"]
                                     ELSE NoCall]

Load(i, screen, after) ==
    /\ ui' = [screen EXCEPT !.loading = TRUE]
    /\ calls' = [calls EXCEPT ![i] = [kind |-> "load", after |-> after]]

Refresh(i) == ~ui.loading /\ calls[i] = NoCall /\ Load(i, ui, "nothing")

\* The list lands as the server read it, perhaps before a later review.
LoadLands(i, rows) ==
    /\ calls[i].kind = "load"
    /\ ui' = [ui EXCEPT !.loading = FALSE, !.rows = rows]
    /\ calls' = [calls EXCEPT ![i] = NoCall]

PickFilter(filter) ==
    /\ filter # ui.filter
    /\ ui' = [ui EXCEPT !.filter = filter]
    /\ UNCHANGED calls

\* `reviewing` and `note` are only ever set together.
Dialog(reviews) == [ui EXCEPT !.reviewing = reviews, !.note = {}]

OpenReview(review) ==
    /\ ui.reviewing = {}
    /\ ~ui.loading
    /\ review.row \in Shown
    /\ ui.rows[review.row] = "PENDING"
    /\ ui' = Dialog({review})
    /\ UNCHANGED calls

CancelReview ==
    /\ ui.reviewing # {}
    /\ ui' = Dialog({})
    /\ UNCHANGED calls

TypeNote ==
    /\ ui.reviewing # {}
    /\ ui' = [ui EXCEPT !.note = ui.reviewing]
    /\ UNCHANGED calls

\* `submit`: a verification may go without a note, a rejection may not.
Submit(i) ==
    /\ ~Busy
    /\ calls[i] = NoCall
    /\ \E review \in ui.reviewing :
         /\ review.decision = "REJECTED" => ui.note # {}
         /\ calls' = [calls EXCEPT ![i] = [kind |-> "review", review |-> review,
                                           note |-> ui.note]]
    /\ UNCHANGED ui

\* The dialog closes, whichever is open by now, and the list is read again.
Reviewed(i) ==
    /\ calls[i].kind = "review"
    /\ Load(i, Dialog({}), "review")

ReviewFails(i) ==
    /\ calls[i].kind = "review"
    /\ calls' = [calls EXCEPT ![i] = NoCall]
    /\ UNCHANGED ui

Next ==
    \/ \E i \in CallId :
         \/ \E held \in SUBSET Row : \E rows \in [held -> Filter \ {"ALL"}] : LoadLands(i, rows)
         \/ Refresh(i) \/ Submit(i) \/ Reviewed(i) \/ ReviewFails(i)
    \/ \E filter \in Filter : PickFilter(filter)
    \/ \E review \in Review : OpenReview(review)
    \/ CancelReview \/ TypeNote

Spec == Init /\ [][Next]_vars

\* A rejection carries a reason, and whatever note a review carries was typed
\* for that payment and that decision: what was typed to verify one student's
\* payment is never sent as the reason another's is rejected.
ReasonBelongsToItsRow ==
    \A i \in CallId : calls[i].kind = "review" =>
        /\ calls[i].note \subseteq {calls[i].review}
        /\ calls[i].review.decision = "REJECTED" => calls[i].note # {}

=============================================================================

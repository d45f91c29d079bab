----------------------------- MODULE Reconnect -----------------------------
(***************************************************************************)
(* The dialog both web applications show while a page has lost its server  *)
(* (ReconnectModal.razor.js): what it does when Blazor reports a state,    *)
(* when a button is clicked and when the page becomes visible again. Each  *)
(* of its attempts waits for Blazor, and further attempts start meanwhile. *)
(*                                                                         *)
(* External: Blazor and the server, as the script's comments describe      *)
(* them. A call of a connected page succeeds, and a page that is connected *)
(* again is told so. What follows an answer runs before any other event.   *)
(***************************************************************************)
EXTENDS Naturals, FiniteSets

CONSTANTS
    Attempt,    \* attempts that may be under way at once
    MaxLoss,    \* bound on lost and paused connections
    MaxOutage   \* bound on calls that do not reach the server, or whose
                \* answer does not reach the page

ASSUME BoundsAssumption == MaxLoss \in Nat /\ MaxOutage \in Nat

VARIABLES
    tab,        \* "live", "reloaded" or, by the server's order, "rejected"
    connection, \* "up", "lost", "failed" or "paused"
    circuit,    \* at the server: "held", "saved" or "gone"
    modal,      \* the dialog is open
    class,      \* what the dialog shows
    listening,  \* to visibilitychange
    visible,    \* document.visibilityState
    call,       \* per attempt: the call it waits for, or "none"
    losses,     \* number of losses
    outages,    \* number of failed calls
    overlapped  \* history: an attempt began while another was under way

dialog == <<modal, class>>
bounds == <<losses, outages>>
dialogVars == <<tab, connection, circuit, dialog, listening, visible, call, bounds, overlapped>>

Step == {"none", "reconnect", "resumeCircuit", "resume"}

DialogTypeOK ==
    /\ tab \in {"live", "reloaded", "rejected"}
    /\ connection \in {"up", "lost", "failed", "paused"}
    /\ circuit \in {"held", "saved", "gone"}
    /\ modal \in BOOLEAN /\ listening \in BOOLEAN /\ visible \in BOOLEAN
    /\ class \in {"hide", "show", "failed", "paused", "resume-failed"}
    /\ call \in [Attempt -> Step]
    /\ losses \in 0..MaxLoss
    /\ outages \in 0..MaxOutage
    /\ overlapped \in BOOLEAN

DialogInit ==
    /\ tab = "live"
    /\ connection = "up"
    /\ circuit = "held"
    /\ modal = FALSE
    /\ class = "hide"
    /\ listening = FALSE
    /\ visible = TRUE
    /\ call = [a \in Attempt |-> "none"]
    /\ losses = 0
    /\ outages = 0
    /\ overlapped = FALSE

Live == tab = "live"

-----------------------------------------------------------------------------
(* Blazor reports a state of the connection.                               *)

Lose(state, keeps) ==
    /\ Live /\ connection = "up" /\ losses < MaxLoss
    /\ losses' = losses + 1
    /\ connection' = state
    /\ circuit' = keeps
    /\ modal' = TRUE
    /\ UNCHANGED <<tab, listening, visible, call, outages, overlapped>>

Show == Lose("lost", circuit) /\ class' = "show"
Pause == Lose("paused", "saved") /\ class' = "paused"

(* Blazor reconnected by itself.                                           *)
Hide ==
    /\ Live /\ connection = "lost" /\ circuit = "held"
    /\ connection' = "up"
    /\ modal' = FALSE
    /\ class' = "hide"
    /\ UNCHANGED <<tab, circuit, listening, visible, call, bounds, overlapped>>

(* Blazor gave up.                                                         *)
Failed ==
    /\ Live /\ connection = "lost"
    /\ connection' = "failed"
    /\ class' = "failed"
    /\ listening' = TRUE
    /\ UNCHANGED <<tab, circuit, modal, visible, call, bounds, overlapped>>

(* The server refused Blazor's own attempt.                                *)
Rejected ==
    /\ Live /\ connection = "lost" /\ circuit # "held"
    /\ tab' = "rejected"
    /\ UNCHANGED <<connection, circuit, dialog, listening, visible, call, bounds, overlapped>>

(* The server does not keep a circuit for ever, nor what it saved of it.   *)
Evict ==
    /\ connection # "up"
    /\ \/ circuit = "held" /\ circuit' \in {"saved", "gone"}
       \/ circuit = "saved" /\ circuit' = "gone"
    /\ UNCHANGED <<tab, connection, dialog, listening, visible, call, bounds, overlapped>>

-----------------------------------------------------------------------------
(* Attempts.                                                               *)

Begin(a, step) ==
    /\ Live /\ call[a] = "none"
    /\ call' = [call EXCEPT ![a] = step]
    /\ overlapped' = (overlapped \/ \E b \in Attempt : call[b] # "none")
    /\ UNCHANGED <<tab, connection, circuit, dialog, bounds>>

(* The button is on the dialog of a failed connection.                     *)
RetryClick(a) ==
    /\ class = "failed"
    /\ Begin(a, "reconnect")
    /\ listening' = FALSE
    /\ UNCHANGED visible

(* The document is hidden or becomes visible; then a listening page tries. *)
ChangeVisibility(a) ==
    /\ visible' = ~visible
    /\ IF visible' /\ listening
       THEN Begin(a, "reconnect") /\ listening' = FALSE
       ELSE /\ Live
            /\ UNCHANGED <<tab, connection, circuit, dialog, listening, call, bounds, overlapped>>

ResumeClick(a) ==
    /\ class \in {"paused", "resume-failed"}
    /\ Begin(a, "resume")
    /\ UNCHANGED <<listening, visible>>

Done(a) == call' = [call EXCEPT ![a] = "none"]

(* Blazor.reconnect returns true for a connected page or a held circuit,   *)
(* Blazor.resumeCircuit for a connected page or a saved circuit.           *)
Accepts(a) ==
    connection = "up" \/ circuit = (IF call[a] = "reconnect" THEN "held" ELSE "saved")

(* The dialog is closed by Blazor's report or by the script.               *)
Succeed(a) ==
    /\ Live /\ call[a] # "none" /\ Accepts(a)
    /\ connection' = "up"
    /\ circuit' = "held"
    /\ modal' = FALSE
    /\ class' = "hide"
    /\ Done(a)
    /\ UNCHANGED <<tab, listening, visible, bounds, overlapped>>

(* Mutated form of Refused: the page is reloaded at once.                  *)
RefusedReload(a) ==
    /\ Live /\ call[a] # "none" /\ ~Accepts(a)
    /\ tab' = "reloaded"
    /\ Done(a)
    /\ UNCHANGED <<connection, circuit, dialog, listening, visible, bounds, overlapped>>

(* A circuit that cannot be reconnected is resumed if possible; if that    *)
(* is refused too the page is reloaded.                                    *)
Refused(a) ==
    /\ Live /\ call[a] # "none" /\ ~Accepts(a)
    /\ IF call[a] = "reconnect"
       THEN call' = [call EXCEPT ![a] = "resumeCircuit"] /\ UNCHANGED tab
       ELSE Done(a) /\ tab' = "reloaded"
    /\ UNCHANGED <<connection, circuit, dialog, listening, visible, bounds, overlapped>>

(* What the server did for a call whose answer is lost: a circuit it       *)
(* resumed is one the page does not know.                                  *)
Unanswered(a) ==
    circuit' \in {circuit} \cup
        {c \in {"gone"} : connection # "up" /\ call[a] # "reconnect" /\ circuit = "saved"}

(* Mutated form of ListenAgain: the listener is not put back.              *)
ListenNoMore(a) == UNCHANGED listening

ListenAgain(a) ==
    listening' = (listening \/ call[a] \in {"reconnect", "resumeCircuit"})

(* The call throws.                                                        *)
Throw(a) ==
    /\ Live /\ call[a] # "none" /\ connection # "up"
    /\ outages < MaxOutage
    /\ outages' = outages + 1
    /\ Unanswered(a)
    /\ ListenAgain(a)
    /\ class' = IF call[a] = "resume" /\ class = "paused" THEN "resume-failed" ELSE class
    /\ Done(a)
    /\ UNCHANGED <<tab, connection, modal, visible, losses, overlapped>>

-----------------------------------------------------------------------------
Report == Show \/ Pause \/ Hide \/ Failed \/ Rejected \/ Evict
CallEnds(a) == Succeed(a) \/ Refused(a) \/ Throw(a)

DialogNext ==
    \/ Report
    \/ \E a \in Attempt : RetryClick(a) \/ ChangeVisibility(a) \/ ResumeClick(a) \/ CallEnds(a)

(* Blazor's calls end, and the user comes back to the page.                *)
Fairness ==
    /\ \A a \in Attempt : WF_dialogVars(CallEnds(a))
    /\ WF_dialogVars(\E a \in Attempt : ChangeVisibility(a))

DialogSpec == DialogInit /\ [][DialogNext]_dialogVars /\ Fairness

-----------------------------------------------------------------------------
UnderWay == {a \in Attempt : call[a] # "none"}

(* A page whose connection failed is never stuck: whatever attempts        *)
(* overlapped, one is under way or the page will try again once visible,   *)
(* and a page without connection keeps its dialog open.                    *)
NeverStuck ==
    Live =>
        /\ connection = "failed" => listening \/ UnderWay # {}
        /\ connection # "up" => modal

(* An attempt reloads the page only when nothing of it is left at the      *)
(* server, not a circuit that it holds, nor one that it saved, unless two  *)
(* attempts overlapped: one that was refused before another succeeded may  *)
(* reload the page when its connection is lost again.                      *)
ReloadLosesNothing == tab = "reloaded" /\ ~overlapped => circuit = "gone"

(* A failed connection recovers, or the page is reloaded, without a click. *)
FailedPageRecovers == (Live /\ connection = "failed") ~> (connection = "up" \/ ~Live)
=============================================================================

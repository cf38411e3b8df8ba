---------------------------- MODULE VisualCheck ----------------------------
(***************************************************************************)
(* archify's visual-check (bin/visual-check.mjs) beside the commands of    *)
(* Publish: it reads the published page, drives Chrome through the         *)
(* DevTools pipe over a series of viewports, photographs some, and leaves  *)
(* sidecar files: the shots, a contact sheet and a receipt.  The page may  *)
(* be replaced at any moment, and Chrome may die, refuse or not answer.    *)
(*                                                                         *)
(* A CDP request and a wait for an event are two promises with a timer     *)
(* each (PipeCdp).  The wait for the load event is created before the      *)
(* navigation is requested and awaited only after its answer: a rejection  *)
(* in between has no handler and ends the process.                         *)
(***************************************************************************)
EXTENDS Publish

CONSTANT Views \* number of viewports; each is photographed

ASSUME ViewsAssumption == Views \in Nat \ {0}

VARIABLES
    check,    \* the visual-check process
    shots,    \* shots[v]: the page a screenshot shows, NoHtml if there is no file
    sheet,    \* there is a contact sheet
    receipt,  \* the receipt on disk
    swaps     \* history: replacements of the page since the check began, up to two

visualVars == <<check, shots, sheet, receipt, swaps>>
vars == <<publishVars, visualVars>>

NoReceipt == [status |-> "none", of |-> NoHtml]
Receipts == {NoReceipt} \cup [status : {"pass", "fail", "skipped"}, of : Html \ {NoHtml}]

Checks == [
    pc : {"idle", "view", "navigating", "shoot", "reread", "sheet", "receipt",
          "give_up", "fail_receipt", "close", "ended"},
    seen : Html,        \* the page the receipt will name
    view : 1..Views,
    answered : BOOLEAN, \* the navigation request is settled
    loaded : BOOLEAN,   \* the load event has come
    page : Html,        \* the page the browser shows
    ok : BOOLEAN,       \* every measurement so far passed
    orphan : BOOLEAN,   \* the wait for the load event is pending and nobody awaits it
    exit : {"none", "pass", "fail", "skipped", "died", "killed"}]

TypeOK ==
    /\ PublishTypeOK
    /\ check \in Checks
    /\ shots \in [1..Views -> Html]
    /\ sheet \in BOOLEAN
    /\ receipt \in Receipts
    /\ swaps \in 0..2

Idle == [pc |-> "idle", seen |-> NoHtml, view |-> 1, answered |-> FALSE, loaded |-> FALSE,
         page |-> NoHtml, ok |-> TRUE, orphan |-> FALSE, exit |-> "none"]
Ended(exit) == [Idle EXCEPT !.pc = "ended", !.exit = exit]

NoShots == [v \in 1..Views |-> NoHtml]

\* Nothing was checked yet, or an earlier check passed on the page that stands.
VisualInit ==
    /\ check = Idle
    /\ \/ shots = NoShots /\ sheet = FALSE /\ receipt = NoReceipt
       \/ /\ target.html # NoHtml
          /\ shots = [v \in 1..Views |-> target.html]
          /\ sheet = TRUE
          /\ receipt = [status |-> "pass", of |-> target.html]
    /\ swaps = 0

-----------------------------------------------------------------------------
Keep(v) == UNCHANGED v
NoFault == UNCHANGED publishVars
VisualFault == Fault /\ UNCHANGED <<base, target, proc, edits, overlap, before>>

Sidecars == <<shots, sheet, receipt>>

\* runVisualCheck reads the page; without one it throws and nothing was changed.  What
\* an earlier check left goes before anything new is measured; then Chrome is looked
\* for and started.
Began == [check EXCEPT !.pc = "view", !.seen = target.html]

NoPage ==
    /\ check.pc = "idle" /\ target.html = NoHtml
    /\ check' = Ended("fail")
    /\ NoFault /\ Keep(<<Sidecars, swaps>>)

Begin ==
    /\ check.pc = "idle" /\ target.html # NoHtml
    /\ shots' = NoShots /\ sheet' = FALSE /\ receipt' = NoReceipt
    /\ check' = Began
    /\ NoFault /\ Keep(swaps)

\* Without Chrome the receipt says that the check was skipped, unless it cannot be
\* written.
NoChrome ==
    /\ check.pc = "idle" /\ target.html # NoHtml
    /\ shots' = NoShots /\ sheet' = FALSE
    /\ \/ /\ receipt' = [status |-> "skipped", of |-> target.html]
          /\ check' = Ended("skipped")
          /\ NoFault
       \/ /\ receipt' = NoReceipt
          /\ check' = Ended("fail")
          /\ VisualFault
    /\ Keep(swaps)

\* An exception in runVisualCheck: its catch clause is next.
Throws == [Idle EXCEPT !.pc = "give_up", !.seen = check.seen]

(***************************************************************************)
(* One viewport (ChromeVisualBrowser.inspect)                              *)
(***************************************************************************)
\* The wait for the load event, then the request to navigate.
Navigate ==
    /\ check.pc = "view"
    /\ check' = [check EXCEPT !.pc = "navigating"]
    /\ NoFault /\ Keep(<<Sidecars, swaps>>)

\* The browser reads the page and answers; the load event comes.
Answer ==
    /\ check.pc = "navigating" /\ ~check.answered
    /\ check' = IF check.loaded
                THEN [check EXCEPT !.page = target.html, !.pc = "shoot", !.loaded = FALSE]
                ELSE [check EXCEPT !.page = target.html, !.answered = TRUE]
    /\ target.html # NoHtml
    /\ NoFault /\ Keep(<<Sidecars, swaps>>)

LoadEvent ==
    /\ check.pc = "navigating" /\ ~check.loaded
    /\ check' = IF check.answered
                THEN [check EXCEPT !.pc = "shoot", !.answered = FALSE]
                ELSE [check EXCEPT !.loaded = TRUE]
    /\ NoFault /\ Keep(<<Sidecars, swaps>>)

\* The answer is an error, also when there is no page: inspect throws and leaves the
\* wait for the load event behind.
NavigationError ==
    /\ check.pc = "navigating" /\ ~check.answered
    /\ check' = [Throws EXCEPT !.orphan = ~check.loaded]
    /\ IF target.html = NoHtml THEN NoFault ELSE VisualFault
    /\ Keep(<<Sidecars, swaps>>)

\* The timer of the wait expires.  Before the answer nobody awaits it: the rejection
\* is unhandled and node ends the process.
LoadTimeout ==
    /\ check.pc = "navigating" /\ ~check.loaded
    /\ check' = IF check.answered
                THEN Throws
                ELSE Ended("died")
    /\ VisualFault /\ Keep(<<Sidecars, swaps>>)

\* The timer of the request, which started after that of the wait.
AnswerTimeout ==
    /\ check.pc = "navigating" /\ ~check.answered /\ check.loaded
    /\ check' = Throws
    /\ VisualFault /\ Keep(<<Sidecars, swaps>>)

\* The page's layout is awaited, measured and photographed.
Shoot ==
    /\ check.pc = "shoot"
    /\ shots' = [shots EXCEPT ![check.view] = check.page]
    /\ \E ok \in BOOLEAN :
        check' = [check EXCEPT !.ok = @ /\ ok, !.page = NoHtml,
                              !.pc = IF check.view = Views THEN "reread" ELSE "view",
                              !.view = IF @ = Views THEN @ ELSE @ + 1]
    /\ NoFault /\ Keep(<<sheet, receipt, swaps>>)

\* Chrome dies, an evaluation or a capture fails or times out, a file cannot be
\* written: failAll rejects what is pending with the first error, and inspect throws.
\* A wait for the load event that nobody awaits yet is rejected with the rest.
InspectFails ==
    /\ check.pc \in {"view", "navigating", "shoot"}
    /\ check' = [Throws EXCEPT !.orphan =
             check.pc = "navigating" /\ ~check.answered /\ ~check.loaded]
    /\ VisualFault /\ Keep(<<Sidecars, swaps>>)

(***************************************************************************)
(* The verdict                                                             *)
(***************************************************************************)
\* Mutant: the size is compared, not the hash.
RereadSize ==
    /\ check.pc = "reread"
    /\ check' = IF target.html # NoHtml THEN [check EXCEPT !.pc = "sheet"] ELSE Throws
    /\ NoFault /\ Keep(<<Sidecars, swaps>>)

\* The page must have the bytes it had at the start.
Reread ==
    /\ check.pc = "reread"
    /\ check' = IF target.html = check.seen THEN [check EXCEPT !.pc = "sheet"] ELSE Throws
    /\ NoFault /\ Keep(<<Sidecars, swaps>>)

WriteSheet ==
    /\ check.pc = "sheet"
    /\ sheet' = TRUE
    /\ check' = [check EXCEPT !.pc = "receipt"]
    /\ NoFault /\ Keep(<<shots, receipt, swaps>>)

WriteReceipt ==
    /\ check.pc = "receipt"
    /\ LET status == IF check.ok THEN "pass" ELSE "fail" IN
       /\ receipt' = [status |-> status, of |-> check.seen]
       /\ check' = [check EXCEPT !.pc = "close", !.exit = status]
    /\ NoFault /\ Keep(<<shots, sheet, swaps>>)

WriteFails ==
    /\ check.pc \in {"sheet", "receipt"}
    /\ check' = Throws
    /\ VisualFault /\ Keep(<<Sidecars, swaps>>)

\* The catch clause: shots and sheet go ...
GiveUp ==
    /\ check.pc = "give_up"
    /\ shots' = NoShots /\ sheet' = FALSE
    /\ check' = [check EXCEPT !.pc = "fail_receipt"]
    /\ NoFault /\ Keep(<<receipt, swaps>>)

\* ... and the receipt says that the check failed, unless it cannot be written.
FailReceipt ==
    /\ check.pc = "fail_receipt"
    /\ check' = [check EXCEPT !.pc = "close", !.exit = "fail"]
    /\ \/ receipt' = [status |-> "fail", of |-> check.seen] /\ NoFault
       \/ VisualFault /\ Keep(receipt)
    /\ Keep(<<shots, sheet, swaps>>)

\* close(): the pending promises are rejected and Chrome is ended.  A wait that is
\* still pending ends the process here.
Close ==
    /\ check.pc = "close"
    /\ check' = Ended(IF check.orphan THEN "died" ELSE check.exit)
    /\ NoFault /\ Keep(<<Sidecars, swaps>>)

KillCheck ==
    /\ check.pc \notin {"idle", "ended"}
    /\ check' = Ended("killed")
    /\ VisualFault /\ Keep(<<Sidecars, swaps>>)

VisualNext ==
    \/ NoPage \/ Begin \/ NoChrome
    \/ Navigate \/ Answer \/ LoadEvent \/ NavigationError \/ LoadTimeout \/ AnswerTimeout
    \/ Shoot \/ InspectFails
    \/ Reread \/ WriteSheet \/ WriteReceipt \/ WriteFails
    \/ GiveUp \/ FailReceipt \/ Close \/ KillCheck

\* A step of a command or of the editor; the check counts the pages it replaces.
BesidesNext ==
    /\ PublishNext
    /\ swaps' = IF check.pc \in {"idle", "ended"} \/ target'.html = target.html \/ swaps = 2
                THEN swaps ELSE swaps + 1
    /\ UNCHANGED <<check, Sidecars>>

Next == VisualNext \/ BesidesNext

Init == PublishInit /\ VisualInit

Spec == Init /\ [][Next]_vars

-----------------------------------------------------------------------------
\* The sidecars belong together (runVisualCheck): beside a receipt that says pass
\* stand only shots of the page it names, whatever was published while the check ran
\* and wherever the check was killed; a page that was replaced and put back again in
\* between is beyond the comparison of the bytes.
SidecarsBelong ==
    receipt.status = "pass" /\ swaps < 2 =>
        \A v \in 1..Views : shots[v] \in {NoHtml, receipt.of}

\* references/delivery-contract.md: failed or skipped capture runs remove stale image
\* and contact-sheet sidecars rather than presenting prior evidence as current.  A
\* check that fails after its measurements (an overflow) keeps its shots; one that
\* leaves no receipt, or a receipt of a broken run, keeps none.
BrokenRunLeavesNoShots ==
    check.pc = "ended" /\ check.exit \in {"died", "skipped"} =>
        shots = NoShots /\ ~sheet

=============================================================================

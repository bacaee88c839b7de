------------------------------- MODULE VkAuth -------------------------------
(***************************************************************************)
(* How the client gets TURN credentials from the call service: the call    *)
(* the account may open at start (vk_js_calls.rs), the three ways to fetch *)
(* credentials and the lockout after a captcha that was not solved         *)
(* (auth.rs), the chain of captcha solvers with the application's web view *)
(* (captcha.rs), and the part of the process that opens, holds and closes  *)
(* the account's call (main.rs).                                           *)
(*                                                                         *)
(* Fetches are serialised by the workers' credential_pacer, so one request *)
(* is in progress at a time; what runs beside it are the application, the  *)
(* control input, the clock and the stop of the process.                   *)
(***************************************************************************)
EXTENDS Naturals, Sequences

CONSTANTS
  Cohorts,          \* credential ids, one per cohort of workers
  Sets,             \* TURN credential sets the account's call may return
  MaxAccount,       \* MAX_ACCOUNT_CREDENTIALS
  CallsAttempts,    \* attempts on the VK Calls path
  LegacyAttempts,   \* attempts on the legacy path
  CaptchaAttempts,  \* captchas answered in one legacy attempt
  MaxFetches,       \* bound: fetches begun
  MaxCaptchas,      \* bound: captchas the service asks for
  MaxSwitches       \* bound: times the service changes the kind of a captcha

ASSUME VkAuthAssumption ==
  /\ Cohorts \subseteq Nat
  /\ {MaxAccount, CallsAttempts, LegacyAttempts, CaptchaAttempts} \subseteq Nat \ {0}
  /\ {MaxFetches, MaxCaptchas, MaxSwitches} \subseteq Nat

VARIABLES
  opt,       \* the arguments of the process
  main,      \* where run() is
  call,      \* the account's call: "none", "open", "left", "finished"
  bye,       \* what run() asked of the call when it ended
  stop,      \* the cancellation token
  finish,    \* FINISH_VK_CALLS was read
  verdict,   \* what -validate-vk-hashes printed for a hash
  avail,     \* cohort -> its hash has not been marked unavailable
  fetch,     \* the fetch in progress
  lockout,   \* captcha_lockout_until lies in the future
  issued,    \* fingerprints the broker has given out
  chan,      \* the channel of web view results, capacity 1; now: came for the open request
  owed,      \* web views the application still works on, up to 2
  late,      \* a result of an earlier request solved a captcha
  budget     \* what the service and the workers may still do

procVars == <<opt, main, call, bye, finish, verdict, avail>>
fetchVars == <<fetch, lockout, issued>>
wvVars == <<chan, owed, late>>
vars == <<procVars, stop, fetchVars, wvVars, budget>>

\* One stage per solver solve() tries for a captcha, in each of its modes.
Chain ==
  [wv   |-> <<"webview">>,
   rjs  |-> <<"script", "script", "webview">>,
   auto |-> <<"script", "script", "webview", "webview", "script", "webview">>]

Options ==
  [auth : {"auto_js", "vkcalls", "legacy"}, hash : {"given", "auto_js"},
   captcha : DOMAIN Chain, socks : BOOLEAN, validate : BOOLEAN]

js == opt.hash = "auto_js"

Idle == [pc |-> "idle", by |-> 0, try |-> 0, captchas |-> 0, stage |-> 0]

Init ==
  /\ opt \in Options
  /\ main = "boot" /\ call = "none" /\ bye = "none" /\ stop = FALSE /\ finish = FALSE
  /\ verdict = "none" /\ avail = [c \in Cohorts |-> TRUE]
  /\ fetch = Idle /\ lockout = FALSE /\ issued = {}
  /\ chan = <<>> /\ owed = 0 /\ late = FALSE
  /\ budget = [fetches |-> MaxFetches, captchas |-> MaxCaptchas, switches |-> MaxSwitches]

Spend(what) == budget[what] > 0 /\ budget' = [budget EXCEPT ![what] = @ - 1]

-----------------------------------------------------------------------------
(* get_credentials: the request of one cohort, until it returns or is dropped. *)

Goto(pc) == fetch' = [fetch EXCEPT !.pc = pc, !.try = 1, !.captchas = 0, !.stage = 0]

Return == fetch' = Idle

\* A request that ends because its call is gone makes the worker give the hash up;
\* in auto_js the error is wrapped in another one, and the worker retries it.
ReturnGone ==
  /\ Return
  /\ avail' = IF opt.auth = "auto_js" THEN avail ELSE [avail EXCEPT ![fetch.by] = FALSE]

\* A captcha nobody solved: no request for 60 seconds.
ReturnWait == Return /\ lockout' = TRUE

Begin(c) ==
  /\ main = "run" /\ ~stop /\ fetch.pc = "idle" /\ avail[c] /\ Spend("fetches")
  /\ \/ /\ opt.auth # "auto_js" /\ lockout /\ fetch' = fetch
     \/ /\ opt.auth = "auto_js" \/ ~lockout
        /\ fetch' = [fetch EXCEPT !.by = c, !.try = 1,
                       !.pc = CASE opt.auth = "auto_js" -> "broker"
                                [] opt.auth = "vkcalls" -> "calls"
                                [] OTHER -> "legacy"]
  /\ UNCHANGED <<procVars, stop, lockout, issued, wvVars>>

\* A session of its own for the credential id, the parameters of the call, and the
\* check that the account was not given the same set before.
Broker ==
  /\ fetch.pc = "broker"
  /\ \/ Goto("calls") /\ UNCHANGED issued
     \/ /\ fetch.by \in 1 .. MaxAccount
        /\ \E s \in Sets :
             IF s \in issued THEN Goto("calls") /\ UNCHANGED issued
             ELSE Return /\ issued' = issued \cup {s}
  /\ UNCHANGED <<procVars, stop, lockout, wvVars, budget>>

\* Five requests; the second, third and fifth can say that the call is gone.
CallsPath ==
  /\ fetch.pc = "calls"
  /\ \/ Return /\ UNCHANGED avail
     \/ ReturnGone
     \/ /\ UNCHANGED avail
        /\ CASE fetch.try < CallsAttempts -> fetch' = [fetch EXCEPT !.try = @ + 1]
             [] opt.auth = "auto_js"      -> Return
             [] OTHER                     -> Goto("legacy")
  /\ UNCHANGED <<opt, main, call, bye, finish, verdict, stop, lockout, issued, wvVars, budget>>

\* The next attempt of the legacy path, with the next client id, or the last error.
NextAttempt ==
  IF fetch.try < LegacyAttempts
  THEN fetch' = [fetch EXCEPT !.pc = "legacy", !.try = @ + 1, !.captchas = 0, !.stage = 0]
  ELSE Return

\* A token, then the preview of the call: a failed preview is only logged.
LegacyStart ==
  /\ fetch.pc = "legacy"
  /\ \/ fetch' = [fetch EXCEPT !.pc = "anonymous"] /\ UNCHANGED avail
     \/ NextAttempt /\ UNCHANGED avail
     \/ ReturnGone
  /\ UNCHANGED <<opt, main, call, bye, finish, verdict, stop, lockout, issued, wvVars, budget>>

\* The service asks for a captcha: the limit is checked before the next one is solved.
AskCaptcha ==
  /\ Spend("captchas")
  /\ IF fetch.captchas >= CaptchaAttempts
     THEN ReturnWait
     ELSE /\ fetch' = [fetch EXCEPT !.pc = "solve", !.captchas = @ + 1, !.stage = 1]
          /\ UNCHANGED lockout

Anonymous ==
  /\ fetch.pc = "anonymous"
  /\ \/ fetch' = [fetch EXCEPT !.pc = "join"] /\ UNCHANGED <<avail, lockout, budget>>
     \/ NextAttempt /\ UNCHANGED <<avail, lockout, budget>>
     \/ ReturnGone /\ UNCHANGED <<lockout, budget>>
     \/ AskCaptcha /\ UNCHANGED avail
  /\ UNCHANGED <<opt, main, call, bye, finish, verdict, stop, issued, wvVars>>

Join ==
  /\ fetch.pc = "join"
  /\ Return \/ NextAttempt
  /\ UNCHANGED <<procVars, stop, lockout, issued, wvVars, budget>>

\* The worker's select drops the request when the process stops.
Drop ==
  /\ fetch.pc # "idle" /\ stop /\ Return
  /\ UNCHANGED <<procVars, stop, lockout, issued, wvVars, budget>>

LockoutEnds ==
  /\ lockout /\ lockout' = FALSE
  /\ UNCHANGED <<procVars, stop, fetch, issued, wvVars, budget>>

-----------------------------------------------------------------------------
(* The captcha chain. *)

stages == Chain[opt.captcha]

Solved == fetch' = [fetch EXCEPT !.pc = "anonymous", !.stage = 0]

\* The next solver of the chain; the error of the last one is a captcha to wait for.
StageFailed ==
  IF fetch.stage < Len(stages)
  THEN fetch' = [fetch EXCEPT !.pc = "solve", !.stage = @ + 1] /\ UNCHANGED lockout
  ELSE ReturnWait

\* A pause that is cancelled ends solve_attempts: the web view is the next solver.
AttemptsCancelled ==
  /\ stop /\ UNCHANGED lockout
  /\ \E s \in fetch.stage + 1 .. Len(stages) :
       /\ stages[s] = "webview"
       /\ \A t \in fetch.stage .. s - 1 : stages[t] = "script"
       /\ fetch' = [fetch EXCEPT !.stage = s]

\* solve_once, and the pause after a failed attempt. Each time the service changes the
\* kind of the captcha, solve_once starts on the new kind.
Script ==
  /\ fetch.pc = "solve" /\ stages[fetch.stage] = "script"
  /\ \/ Solved /\ UNCHANGED <<lockout, budget>>
     \/ StageFailed /\ UNCHANGED budget
     \/ AttemptsCancelled /\ UNCHANGED budget
     \/ Spend("switches") /\ UNCHANGED <<fetch, lockout>>
  /\ UNCHANGED <<procVars, stop, issued, wvVars>>

\* Mutant: results of earlier requests stay in the channel.
KeepsResults(c) == c

\* What receiver.try_recv leaves in the channel.
Drained(c) == <<>>

\* The receiver is locked, earlier results are thrown away, and the application
\* is asked to open a web view.
OpenWebView ==
  /\ fetch.pc = "solve" /\ stages[fetch.stage] = "webview"
  /\ chan' = [i \in DOMAIN Drained(chan) |-> [Drained(chan)[i] EXCEPT !.now = FALSE]]
  /\ owed' = IF owed < 2 THEN owed + 1 ELSE owed
  /\ fetch' = [fetch EXCEPT !.pc = "webview"]
  /\ UNCHANGED <<procVars, stop, lockout, issued, late, budget>>

\* Mutant: the wait for the application has no timeout.
WaitsForEver == FALSE

WebViewTimeout == StageFailed /\ UNCHANGED <<chan, late>>

\* An error result and an empty one fail the stage as the timeout does. A cancelled wait
\* ends the chain: the pause behind it, where there is one, is cancelled too.
WebView ==
  /\ fetch.pc = "webview"
  /\ \/ WebViewTimeout
     \/ /\ chan # <<>> /\ chan' = Tail(chan)
        /\ IF Head(chan).ok
           THEN Solved /\ late' = (late \/ ~Head(chan).now) /\ UNCHANGED lockout
           ELSE StageFailed /\ UNCHANGED late
     \/ stop /\ ReturnWait /\ UNCHANGED <<chan, late>>
  /\ UNCHANGED <<procVars, stop, issued, owed, budget>>

\* The application answers a request, maybe long after the client stopped waiting
\* for it; the answer names no request. submit_result refuses it when the channel is full.
Answer ==
  /\ owed > 0 /\ owed' = owed - 1
  /\ main = "run"
  /\ \E ok \in BOOLEAN :
       chan' = IF Len(chan) < 1
               THEN Append(chan, [ok |-> ok, now |-> fetch.pc = "webview"])
               ELSE chan
  /\ UNCHANGED <<procVars, stop, fetchVars, late, budget>>

\* A web view that is closed without an answer.
Forget ==
  /\ owed > 0 /\ owed' = owed - 1
  /\ UNCHANGED <<procVars, stop, fetchVars, chan, late, budget>>

-----------------------------------------------------------------------------
(* run(): validation, start of the call, checks, session, and the end. *)

\* One attempt at a hash: the reply to the token request, then to the preview.
Classify(r) ==
  CASE r = "gone"    -> "invalid"
    [] r = "captcha" -> "valid"
    [] OTHER         -> r

CheckAttempt(token, preview) ==
  IF Classify(token) # "ok" THEN Classify(token)
  ELSE IF Classify(preview) = "ok" THEN "valid" ELSE Classify(preview)

\* Two attempts; only an error leads to the second one and, again, to "unavailable".
CheckHash(first, second) ==
  CASE first # "error"  -> first
    [] second # "error" -> second
    [] OTHER            -> "unavailable"

Replies == {"ok", "gone", "captcha", "error"}

\* -validate-vk-hashes: each hash is judged by itself, and the process ends.
ValidateHashes ==
  /\ main = "boot" /\ opt.validate /\ main' = "exited"
  /\ \E r, again \in [token : Replies, preview : Replies] :
       verdict' = CheckHash(CheckAttempt(r.token, r.preview),
                            CheckAttempt(again.token, again.preview))
  /\ UNCHANGED <<opt, call, bye, finish, avail, stop, fetchVars, wvVars, budget>>

Boot ==
  /\ main = "boot" /\ ~opt.validate
  /\ main' \in IF opt.auth = "auto_js" /\ ~js THEN {"exited"}
              ELSE {"exited", IF js THEN "start" ELSE "check"}
  /\ UNCHANGED <<opt, call, bye, finish, verdict, avail, stop, fetchVars, wvVars, budget>>

\* Mutant: the creator leaves whatever the application asked for.
OnlyLeaves(how) ==
  /\ bye' = "leave"
  /\ call' \in {call, IF call = "open" THEN "left" ELSE call}

\* leave_creator and finish try three times; the call stays open if all fail.
HangUp(how) ==
  /\ bye' = how
  /\ call' \in {call, IF call = "open" THEN (IF how = "leave" THEN "left" ELSE "finished") ELSE call}

\* vk_js_calls::start: the session may fail before the call exists; the call may
\* exist although the answer was lost, and then its creator leaves it.
StartCall ==
  /\ main = "start"
  /\ \/ main' = "exited" /\ UNCHANGED <<call, bye>>
     \/ main' = "check" /\ call' = "open" /\ UNCHANGED bye
     \/ /\ main' = "exited" /\ bye' = "leave"
        /\ call' \in {"none", "open", "left"}
  /\ UNCHANGED <<opt, finish, verdict, avail, stop, fetchVars, wvVars, budget>>

\* The arguments that exclude each other and a SOCKS5 address that is taken end run()
\* without a word to the call; a dispatcher that does not start leaves it.
Check ==
  /\ main = "check"
  /\ \/ main' = "exited" /\ UNCHANGED <<call, bye>>
     \/ main' = "exited" /\ (IF js THEN HangUp("leave") ELSE UNCHANGED <<call, bye>>)
     \/ main' = "run" /\ UNCHANGED <<call, bye>>
  /\ UNCHANGED <<opt, finish, verdict, avail, stop, fetchVars, wvVars, budget>>

\* Every group ended by itself. A SOCKS5 listener keeps the process and its groups are
\* built again, with every hash; not so when the call was the account's own.
GroupsEnd ==
  /\ main = "run" /\ ~stop /\ fetch.pc = "idle" /\ \A c \in Cohorts : ~avail[c]
  /\ IF opt.socks /\ ~js
     THEN avail' = [c \in Cohorts |-> TRUE] /\ UNCHANGED <<main, stop>>
     ELSE main' = "close" /\ stop' = TRUE /\ UNCHANGED avail
  /\ UNCHANGED <<opt, call, bye, finish, verdict, fetchVars, wvVars, budget>>

\* STOP, a signal, the end of the control input or of the parent.
Stop ==
  /\ main = "run" /\ ~stop /\ stop' = TRUE
  /\ UNCHANGED <<procVars, fetchVars, wvVars, budget>>

FinishCalls ==
  /\ main = "run" /\ ~finish /\ finish' = TRUE
  /\ UNCHANGED <<opt, main, call, bye, verdict, avail, stop, fetchVars, wvVars, budget>>

\* After the stop run() awaits the groups, then the tasks that use the dispatcher.
Unwound == fetch.pc = "idle"

Unwind ==
  /\ main = "run" /\ stop /\ Unwound /\ main' = "close"
  /\ UNCHANGED <<opt, call, bye, finish, verdict, avail, stop, fetchVars, wvVars, budget>>

Close ==
  /\ main = "close" /\ main' = "exited"
  /\ IF js THEN HangUp(IF finish THEN "finish" ELSE "leave") ELSE UNCHANGED <<call, bye>>
  /\ UNCHANGED <<opt, finish, verdict, avail, stop, fetchVars, wvVars, budget>>

-----------------------------------------------------------------------------
Work ==
  \/ Broker \/ CallsPath \/ LegacyStart \/ Anonymous \/ Join \/ Drop
  \/ Script \/ OpenWebView \/ WebView

Main ==
  \/ ValidateHashes \/ Boot \/ StartCall \/ Check \/ GroupsEnd \/ Unwind \/ Close

Next ==
  \/ \E c \in Cohorts : Begin(c)
  \/ Work \/ Main \/ LockoutEnds \/ Answer \/ Forget \/ Stop \/ FinishCalls

\* Requests have a timeout of 20 s or less and the waits of the captcha chain end, so a
\* fetch moves on; run() and the clock do. The application need not answer.
Spec == Init /\ [][Next]_vars /\ WF_vars(Work) /\ WF_vars(Main) /\ WF_vars(LockoutEnds)

-----------------------------------------------------------------------------
\* A web view result solves a captcha only when it was submitted while the request for
\* that captcha was open: a result that came after its request timed out, or after the
\* request was dropped, is thrown away when the next request opens (CaptchaSolver::webview).
AnswerIsFresh == ~late

\* Every request for credentials ends, whatever the service and the application do: the
\* paths, attempts, captchas and solvers behind one another are finite and none waits for ever.
CallReturns == fetch.pc # "idle" ~> fetch.pc = "idle"

\* A process that is stopped while it runs ends, and its last word to the account's call is
\* the one the application asked for: finish it after FINISH_VK_CALLS, else leave it.
SaidGoodbye == main = "exited" /\ bye = IF js THEN (IF finish THEN "finish" ELSE "leave") ELSE "none"
StopClosesCall == main = "run" /\ stop ~> SaidGoodbye

=============================================================================

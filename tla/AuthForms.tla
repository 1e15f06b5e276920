----------------------------- MODULE AuthForms -----------------------------
(***************************************************************************)
(* The forms of an account that nobody is signed in for: the signup, the   *)
(* page of the verification link, the forgotten password and its reset.    *)
(*   frontend pages/SignupPage.tsx, EmailVerificationPage.tsx,             *)
(*   ForgotPasswordPage.tsx, ResetPasswordPage.tsx,                        *)
(*   services/authService.ts, services/base/BaseService.ts                 *)
(*   backend  api/endpoints/auth.py (and the routers it includes)          *)
(* One address.  Texts are what a password field may hold: 0 is blank, 1   *)
(* is too weak, and the others are good.                                   *)
(***************************************************************************)
EXTENDS Naturals, FiniteSets

CONSTANTS
  Texts,
  MaxTypes,   \* bound: changes of a field
  MaxSubmits, \* bound: submissions
  MaxErrors,  \* bound: answers that do not arrive
  MaxVisits   \* bound: pages opened

VARIABLES
  requires,   \* REQUIRE_EMAIL_VERIFICATION
  password,   \* of the account, 0 when there is none
  verified,   \* is_verified
  resetLink,  \* "none", "valid" or "used"
  page,       \* "signup", "verify", "forgot", "reset", "login" or "home"
  values,     \* what the fields hold
  errors,     \* fields under which an error is shown
  mutation,   \* what the page shows of its request: "idle", "pending", "success", "error"
  status,     \* of the verification page
  withToken,  \* the page was opened by a link
  attempted,  \* verificationAttempted
  calls,      \* calls under way: [id, kind, text, st, shown]
  counts,     \* numbers of changes, submissions, errors and visits there were
  visit,      \* (history) in this visit: verifications sent, whether something was typed
              \*   during a reset, and the submissions
  done,       \* (history) submissions that changed the password
  lost        \* (history) an answer was lost after the server did its work

vars == <<requires, password, verified, resetLink, page, values, errors, mutation, status,
          withToken, attempted, calls, counts, visit, done, lost>>

history == <<done, lost>>
account == <<requires, password, verified, resetLink>>
form == <<values, errors>>
verifying == <<status, withToken, attempted>>

Fields == {"password", "confirm"}
Blank == [f \in Fields |-> 0]
NewVisit == [sends |-> 0, typed |-> FALSE, ids |-> {}]

Init ==
  \* the account may be there already
  /\ requires \in BOOLEAN /\ password \in {0, 2} /\ verified = FALSE /\ resetLink = "none"
  /\ page = "signup" /\ values = Blank /\ errors = {} /\ mutation = "idle"
  /\ status = "pending" /\ withToken = FALSE /\ attempted = FALSE
  /\ calls = {} /\ counts = [types |-> 0, submits |-> 0, errors |-> 0, visits |-> 0]
  /\ visit = NewVisit /\ done = {} /\ lost = FALSE

-----------------------------------------------------------------------------
(* The form *)

Good(text) == text > 1

\* validateForm: the fields that have an error
validateForm(v) ==
  {f \in Fields :
     \/ f = "password" /\ ~Good(v["password"])
     \/ f = "confirm" /\ (v["confirm"] = 0 \/ v["confirm"] # v["password"])}

\* Mutant: the error stays.
ErrorsAfter_Keeps(field) == errors

\* The error of the field that was changed goes.
ErrorsAfter(field) == errors \ {field}

\* handleChange; the reset page also forgets its request, whatever became of it.
Change(field, text) ==
  /\ page \in {"signup", "reset"} /\ mutation # "success" /\ counts.types < MaxTypes
  /\ values[field] # text
  /\ values' = [values EXCEPT ![field] = text] /\ errors' = ErrorsAfter(field)
  /\ counts' = [counts EXCEPT !.types = @ + 1]
  /\ visit' = [visit EXCEPT !.typed = @ \/ (page = "reset" /\ mutation = "pending")]
  /\ IF page = "reset"
     THEN /\ mutation' = "idle"
          /\ calls' = {[c EXCEPT !.shown = c.kind # "reset" /\ c.shown] : c \in calls}
     ELSE UNCHANGED <<mutation, calls>>
  /\ UNCHANGED <<account, page, verifying, history>>

Call(kind, text) ==
  [id |-> counts.submits + 1, kind |-> kind, text |-> text, st |-> "sent", shown |-> TRUE]

\* The button of a pending request cannot be pressed.
MaySubmit == mutation # "pending"

\* handleSubmit of the signup and of the reset
Submit ==
  /\ page \in {"signup", "reset"} /\ mutation # "success" /\ MaySubmit
  /\ counts.submits < MaxSubmits
  /\ counts' = [counts EXCEPT !.submits = @ + 1]
  /\ errors' = validateForm(values)
  /\ IF errors' = {}
     THEN /\ mutation' = "pending"
          /\ calls' = {[c EXCEPT !.shown = FALSE] : c \in calls}
                      \cup {Call(page, values["password"])}
          /\ visit' = [visit EXCEPT !.ids = @ \cup {counts.submits + 1}]
     ELSE UNCHANGED <<mutation, calls, visit>>
  /\ UNCHANGED <<account, page, values, verifying, history>>

\* handleSubmit of the forgotten password
SubmitForgot ==
  /\ page = "forgot" /\ mutation \notin {"pending", "success"} /\ counts.submits < MaxSubmits
  /\ counts' = [counts EXCEPT !.submits = @ + 1]
  /\ mutation' = "pending" /\ calls' = calls \cup {Call("forgot", 0)}
  /\ UNCHANGED <<account, page, form, verifying, visit, history>>

-----------------------------------------------------------------------------
(* The verification page *)

\* Mutant: whenever it is pending.
MayVerify_Again == status = "pending"

\* Once in a visit
MayVerify == status = "pending" /\ ~attempted

\* The effect for the token of the link
Verify ==
  /\ page = "verify" /\ withToken /\ MayVerify
  /\ attempted' = TRUE /\ status' = "verifying"
  /\ calls' = calls \cup {[Call("verify", 0) EXCEPT !.id = 100 + visit.sends]}
  /\ visit' = [visit EXCEPT !.sends = @ + 1]
  /\ UNCHANGED <<account, page, form, mutation, withToken, counts, history>>

\* handleResend; the button is there until the page knows better.
handleResend ==
  /\ page = "verify" /\ status \in {"pending", "error"} /\ counts.submits < MaxSubmits
  /\ ~\E c \in calls : c.kind = "resend" /\ c.shown
  /\ counts' = [counts EXCEPT !.submits = @ + 1]
  /\ status' = "pending" /\ calls' = calls \cup {Call("resend", 0)}
  /\ UNCHANGED <<account, page, form, mutation, withToken, attempted, visit, history>>

-----------------------------------------------------------------------------
(* The server *)

Becomes(c, st) == {d \in calls : d.id # c.id} \cup {[c EXCEPT !.st = st]}

\* register, and without verification the login after it
TakeSignup(c) ==
  /\ c.kind = "signup"
  /\ IF password = 0
     THEN password' = c.text /\ calls' = Becomes(c, IF requires THEN "done" ELSE "login")
     ELSE calls' = Becomes(c, "refused") /\ UNCHANGED password
  /\ UNCHANGED <<verified, resetLink, done>>

\* verify: a verified account is an error, too.
TakeVerify(c) ==
  /\ c.kind = "verify"
  /\ calls' = Becomes(c, IF verified THEN "refused" ELSE "done") /\ verified' = TRUE
  /\ UNCHANGED <<password, resetLink, done>>

\* request-verify-token and forgot-password
TakeMail(c) ==
  /\ c.kind \in {"resend", "forgot"}
  /\ calls' = Becomes(c, "done")
  /\ resetLink' = IF c.kind = "forgot" /\ password # 0 THEN "valid" ELSE resetLink
  /\ UNCHANGED <<password, verified, done>>

\* reset-password: the token names the old password, and is of no use after it.
TakeReset(c) ==
  /\ c.kind = "reset"
  /\ IF resetLink = "valid"
     THEN /\ password' = c.text /\ resetLink' = "used" /\ done' = done \cup {c.id}
          /\ calls' = Becomes(c, "done")
     ELSE calls' = Becomes(c, "refused") /\ UNCHANGED <<password, resetLink, done>>
  /\ UNCHANGED verified

Take(c) ==
  /\ c.st = "sent"
  /\ TakeSignup(c) \/ TakeVerify(c) \/ TakeMail(c) \/ TakeReset(c)
  /\ UNCHANGED <<requires, page, form, mutation, verifying, counts, visit, lost>>

\* The login of the new account
TakeLogin(c) ==
  /\ c.st = "login"
  /\ calls' = Becomes(c, "done")
  /\ UNCHANGED <<account, page, form, mutation, verifying, counts, visit, history>>

-----------------------------------------------------------------------------
(* Answers *)

\* Another page is opened.
Open(p, token) ==
  /\ page' = p /\ withToken' = token /\ status' = "pending" /\ attempted' = FALSE
  /\ values' = Blank /\ errors' = {} /\ mutation' = "idle" /\ visit' = NewVisit

\* Mutant: a reset that succeeded is not told.
Shown_Silent(c, good) == IF good THEN "idle" ELSE "error"

Shown(c, good) == IF good THEN "success" ELSE "error"

\* The callbacks of the request: onSuccess or onError
Told(c, good) ==
  CASE c.kind = "signup" /\ good -> Open(IF requires THEN "verify" ELSE "home", FALSE)
    [] c.kind \in {"verify", "resend"} ->
         /\ status' = (IF ~good THEN "error" ELSE IF c.kind = "verify" THEN "success" ELSE "pending")
         /\ UNCHANGED <<page, form, mutation, withToken, attempted, visit>>
    [] OTHER -> mutation' = Shown(c, good) /\ UNCHANGED <<page, form, verifying, visit>>

Ignored == UNCHANGED <<page, form, mutation, verifying, visit>>

\* Of a page that was left nothing is shown, but a signup still moves on.
Heard(c, good) ==
  IF c.shown \/ (c.kind = "signup" /\ good) THEN Told(c, good) ELSE Ignored

Answer(c) ==
  /\ c.st \in {"done", "refused"}
  /\ Heard(c, c.st = "done")
  /\ calls' = IF page' = page THEN calls \ {c}
              ELSE {[d EXCEPT !.shown = FALSE] : d \in calls \ {c}}
  /\ UNCHANGED <<account, counts, history>>

Error(c) ==
  /\ counts.errors < MaxErrors
  /\ counts' = [counts EXCEPT !.errors = @ + 1]
  /\ lost' = (lost \/ c.st # "sent")

\* No answer arrives.
CallFails(c) ==
  /\ Error(c) /\ Heard(c, FALSE)
  /\ calls' = calls \ {c}
  /\ UNCHANGED <<account, done>>

\* An empty 5xx of a proxy: serviceCall does all of it again.
Retry(c) ==
  /\ Error(c)
  /\ calls' = Becomes(c, "sent")
  /\ UNCHANGED <<account, page, form, mutation, verifying, visit, done>>

\* The user opens a page, or a link of a mail.
Visit(p, token) ==
  /\ counts.visits < MaxVisits
  /\ p # page \/ token
  /\ p = "reset" => resetLink # "none"
  /\ token => p = "verify" /\ password # 0 /\ requires
  /\ counts' = [counts EXCEPT !.visits = @ + 1]
  /\ Open(p, token)
  /\ calls' = {[c EXCEPT !.shown = FALSE] : c \in calls}
  /\ UNCHANGED <<account, history>>

\* The page of the signup: its fields and its button
SignupPage ==
  /\ page = "signup"
  /\ Submit \/ \E field \in Fields, text \in Texts : Change(field, text)

\* The page of a reset: the same, until it succeeded
ResetPasswordPage ==
  /\ page = "reset" /\ mutation # "success"
  /\ Submit \/ \E field \in Fields, text \in Texts : Change(field, text)

\* The page of a verification link: what is shown, and the button of another mail
VerificationStatus == page = "verify" /\ (Verify \/ handleResend)

\* The page of a forgotten password: the form, or after it the way to the login
ForgotPasswordPage == page = "forgot" /\ SubmitForgot

Next ==
  \/ SignupPage \/ ResetPasswordPage \/ VerificationStatus \/ ForgotPasswordPage
  \/ \E c \in calls : Take(c) \/ TakeLogin(c) \/ Answer(c) \/ CallFails(c) \/ Retry(c)
  \/ \E p \in {"signup", "verify", "forgot", "reset"}, token \in BOOLEAN : Visit(p, token)

Spec == Init /\ [][Next]_vars

-----------------------------------------------------------------------------
(* Properties *)

TypeOK ==
  /\ password \in Texts \ {1} /\ verified \in BOOLEAN
  /\ page \in {"signup", "verify", "forgot", "reset", "home"}
  /\ values \in [Fields -> Texts] /\ errors \subseteq Fields
  /\ mutation \in {"idle", "pending", "success", "error"}
  /\ status \in {"pending", "verifying", "error", "success"}

\* An error under the password is of what the field holds; under the second field it may
\* be of a first field that was changed since.
ErrorsAreCurrent == "password" \in errors => ~Good(values["password"])

\* The token of a verification link is sent once in a visit, however often the page is
\* pending again because the mail was asked for once more.
VerifiesOnce == visit.sends <= 1

\* The reset page says it succeeded exactly if one of its submissions changed the
\* password: a second one would be told that the link is of no use.  Not when an answer
\* was lost, or something was typed before it came.
ResetIsTold ==
  page = "reset" /\ calls = {} /\ ~lost /\ ~visit.typed =>
    (mutation = "success" <=> visit.ids \cap done # {})
=============================================================================

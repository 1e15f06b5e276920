-------------------------- MODULE MessageLifecycle --------------------------
(***************************************************************************)
(* What the chat page is entitled to assume about an assistant message in  *)
(* the database: the message is opened once, closed once with a verdict,   *)
(* and its text is written at most once.  A completed message gets verdict *)
(* and text in one write; a failed or interrupted one may get the verdict  *)
(* first and the text after it.  ChatTask is shown to implement this.      *)
(***************************************************************************)
EXTENDS Naturals

CONSTANTS Messages,     (* the assistant messages of one chat              *)
          MaxEvents     (* the most stream events one turn emits           *)

VARIABLES status,       (* Message.stream_status                           *)
          content       (* how many events Message.content holds           *)

vars == <<status, content>>

Verdicts == {"completed", "failed", "interrupted"}
-----------------------------------------------------------------------------
Init == /\ status = [m \in Messages |-> "none"]
        /\ content = [m \in Messages |-> 0]

(* The message is created empty, when the user sends a prompt. *)
Open(m) == /\ status[m] = "none"
           /\ status' = [status EXCEPT ![m] = "in_progress"]
           /\ UNCHANGED content

(* The turn ends.  A completed turn has text, and has it at once. *)
Close(m, verdict, n) ==
    /\ status[m] = "in_progress"
    /\ verdict = "completed" => n > 0
    /\ status' = [status EXCEPT ![m] = verdict]
    /\ content' = [content EXCEPT ![m] = n]

(* The partial text of a turn that did not complete follows its verdict. *)
Fill(m, n) ==
    /\ status[m] \in {"failed", "interrupted"}
    /\ content[m] = 0
    /\ content' = [content EXCEPT ![m] = n]
    /\ UNCHANGED status

Next == \E m \in Messages :
           \/ Open(m)
           \/ \E v \in Verdicts, n \in 0..MaxEvents : Close(m, v, n)
           \/ \E n \in 1..MaxEvents : Fill(m, n)

Spec == Init /\ [][Next]_vars
=============================================================================

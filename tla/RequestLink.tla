----------------------------- MODULE RequestLink -----------------------------
(***************************************************************************)
(* What the packet server of external mode promises to a host that stays   *)
(* connected: its requests are served one at a time, in order, each once;  *)
(* each is answered once, with what serving it did; a parameter download   *)
(* takes effect as a whole exactly if its answer is OK.                    *)
(***************************************************************************)
EXTENDS Naturals, Sequences

CONSTANTS
  Sections,     \* the transitions of the parameter table
  Refusable,    \* requests that may be answered with NOT_ENOUGH_MEMORY
  Silent        \* requests without a response

VARIABLES
  up,           \* the host is connected, and so is the target
  asked,        \* the requests of this connection
  served,       \* how many of them the target has served
  owed,         \* the answer to the last of them, until it is sent
  answers,      \* the answers of this connection
  params        \* the parameters of the model

vars == <<up, asked, served, owed, answers, params>>

Nothing == [type |-> "none", ok |-> TRUE, val |-> << >>]

Init ==
  /\ up = FALSE /\ asked = << >> /\ served = 0 /\ owed = Nothing /\ answers = << >>
  /\ DOMAIN params = Sections

Connect == ~up /\ up' = TRUE /\ UNCHANGED <<asked, served, owed, answers, params>>

Ask ==
  /\ up /\ Len(asked') = Len(asked) + 1 /\ SubSeq(asked', 1, Len(asked)) = asked
  /\ UNCHANGED <<up, served, owed, answers, params>>

\* The next request is served. While the host listens an answer is owed.
Serve ==
  /\ served < Len(asked) /\ owed = Nothing /\ served' = served + 1
  /\ LET r == asked[served + 1] IN
     \E ok \in BOOLEAN :
       /\ ok \/ r.type \in Refusable
       /\ params' = IF r.type = "SETPARAM" /\ ok
                    THEN [s \in Sections |->
                            IF s \in DOMAIN r.set THEN r.set[s] ELSE params[s]]
                    ELSE params
       /\ owed' = IF r.type \in Silent \/ (r.type = "CONNECT" /\ ~ok)
                  THEN Nothing
                  ELSE [type |-> r.type, ok |-> ok,
                        val |-> IF r.type = "GETPARAMS" THEN params ELSE << >>]
  /\ UNCHANGED <<up, asked, answers>>

Answer ==
  /\ up /\ owed # Nothing
  /\ answers' = Append(answers, owed) /\ owed' = Nothing
  /\ UNCHANGED <<up, asked, served, params>>

\* Either side hangs up, or the line fails. A download on its way may still be made.
HangUp ==
  /\ up /\ up' = FALSE
  /\ asked' = << >> /\ served' = 0 /\ owed' = Nothing /\ answers' = << >>
  /\ UNCHANGED params

LateDownload ==
  /\ ~up /\ UNCHANGED <<up, asked, served, owed, answers>>
  /\ DOMAIN params' = DOMAIN params

Next == Connect \/ Ask \/ Serve \/ Answer \/ HangUp \/ LateDownload

Spec == Init /\ [][Next]_vars
=============================================================================

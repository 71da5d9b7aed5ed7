----------------------------- MODULE ChatSession ------------------------------
(***************************************************************************)
(* What one tab promises its user, with no handlers, no queue and no page: *)
(* a setting, the conversation held under it, and the last comparison made *)
(* under it.  Every operation is one indivisible step.                     *)
(***************************************************************************)
EXTENDS Naturals, Sequences

CONSTANTS Settings, FirstSetting, Prompts, None

VARIABLES setting, conversation, comparison

vars == <<setting, conversation, comparison>>

Init == setting = FirstSetting /\ conversation = <<>> /\ comparison = None

\* Another setting starts another conversation.
Choose(s) ==
  /\ s # setting
  /\ setting' = s /\ conversation' = <<>> /\ comparison' = None

\* A message is answered under the setting.
Ask(p) ==
  /\ conversation' = Append(conversation, [prompt |-> p, setting |-> setting])
  /\ UNCHANGED <<setting, comparison>>

\* A new message is compared on top of the conversation, which it does not join.
Compare(p) ==
  /\ comparison' = [prompt |-> p, context |-> conversation, setting |-> setting,
                    reused |-> FALSE]
  /\ UNCHANGED <<setting, conversation>>

\* The last message is compared again, on top of what preceded it.
CompareAgain ==
  LET n == Len(conversation)
  IN  /\ n > 0
      /\ comparison' = [prompt |-> conversation[n].prompt,
                        context |-> SubSeq(conversation, 1, n - 1),
                        setting |-> setting, reused |-> TRUE]
      /\ UNCHANGED <<setting, conversation>>

\* The panes are emptied.
ClearComparison == comparison' = None /\ UNCHANGED <<setting, conversation>>

Next ==
  \/ \E s \in Settings : Choose(s)
  \/ \E p \in Prompts : Ask(p) \/ Compare(p)
  \/ CompareAgain
  \/ ClearComparison

Spec == Init /\ [][Next]_vars
===============================================================================

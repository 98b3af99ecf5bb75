----------------------------- MODULE CourseForm -----------------------------
(* The form that adds courses (frontend/views.py, course_validate.py), as far*)
(* as the courses of one institution go. Video ids begin with the code of the*)
(* course, so no two courses of an institution may have the same. A code is  *)
(* looked up when it is typed or generated and again before the course is    *)
(* saved, never in the transaction that saves it.                            *)
EXTENDS Naturals, Sequences

CONSTANTS
  Codes,    \* edx_classid
  Forms,    \* the requests handled at a time
  MaxForms  \* bound: forms sent

ASSUME CourseFormAssumption ==
  /\ "none" \notin Codes
  /\ MaxForms \in Nat

VARIABLES
  courses,     \* the codes of the Course rows in the order they were saved
  forms,       \* what each request is doing
  sent,        \* forms so far
  overlapped   \* codes two requests found free before either saved

formVars == <<courses, forms, sent, overlapped>>

NoCode == "none"

(* seed: the code the name of the course generates.                          *)
Form == [pc : {"idle", "typed", "generate", "random", "recheck", "save"},
         code : Codes \cup {NoCode}, seed : Codes \cup {NoCode}]

Idle == [pc |-> "idle", code |-> NoCode, seed |-> NoCode]

Taken(c) == \E i \in 1..Len(courses) : courses[i] = c

FormTypeOK ==
  /\ courses \in Seq(Codes)
  /\ forms \in [Forms -> Form]
  /\ sent \in 0..MaxForms
  /\ overlapped \subseteq Codes

FormInit ==
  /\ forms = [f \in Forms |-> Idle]
  /\ sent = 0
  /\ overlapped = {}

-----------------------------------------------------------------------------
(* edx_classid may be left empty.                                            *)
Submit(f) ==
  /\ forms[f].pc = "idle"
  /\ sent < MaxForms
  /\ sent' = sent + 1
  /\ \E typed \in Codes \cup {NoCode}, seed \in Codes :
       forms' = [forms EXCEPT ![f] =
         [pc |-> IF typed = NoCode THEN "generate" ELSE "typed", code |-> typed, seed |-> seed]]
  /\ UNCHANGED <<courses, overlapped>>

CheckTyped(f) ==
  /\ forms[f].pc = "typed"
  /\ forms' = [forms EXCEPT ![f] = IF Taken(@.code)
                 THEN [@ EXCEPT !.pc = "generate", !.code = NoCode]
                 ELSE [@ EXCEPT !.pc = "recheck", !.seed = NoCode]]
  /\ UNCHANGED <<courses, sent, overlapped>>

(* generate_code: the capitals and digits of the name, if nobody has them.   *)
GenerateCode(f) ==
  /\ forms[f].pc = "generate"
  /\ forms' = [forms EXCEPT ![f] = IF Taken(@.seed)
                 THEN [Idle EXCEPT !.pc = "random"]
                 ELSE [Idle EXCEPT !.pc = "recheck", !.code = forms[f].seed]]
  /\ UNCHANGED <<courses, sent, overlapped>>

(* "Generate Random ID until it's unique".                                   *)
RandGen(f) ==
  /\ forms[f].pc = "random"
  /\ \E c \in Codes :
       /\ ~Taken(c)
       /\ forms' = [forms EXCEPT ![f].pc = "recheck", ![f].code = c]
  /\ UNCHANGED <<courses, sent, overlapped>>

ToSave(c) == \E g \in Forms : forms[g].pc = "save" /\ forms[g].code = c

(* Bug: the code was checked when it was chosen, and is not again.           *)
RecheckNever(f) ==
  /\ forms[f].pc = "recheck"
  /\ forms' = [forms EXCEPT ![f].pc = "save"]
  /\ overlapped' = IF ToSave(forms[f].code) THEN overlapped \cup {forms[f].code}
                   ELSE overlapped
  /\ UNCHANGED <<courses, sent>>

(* "Just in case": the answer is empty when somebody has the code by now.    *)
Recheck(f) ==
  /\ forms[f].pc = "recheck"
  /\ IF Taken(forms[f].code)
     THEN /\ forms' = [forms EXCEPT ![f] = Idle]
          /\ UNCHANGED overlapped
     ELSE /\ forms' = [forms EXCEPT ![f].pc = "save"]
          /\ overlapped' = IF ToSave(forms[f].code)
                           THEN overlapped \cup {forms[f].code} ELSE overlapped
  /\ UNCHANGED <<courses, sent>>

SaveCourse(f) ==
  /\ forms[f].pc = "save"
  /\ courses' = Append(courses, forms[f].code)
  /\ forms' = [forms EXCEPT ![f] = Idle]
  /\ UNCHANGED <<sent, overlapped>>

(* Not all the fields of the form are there, or the server goes down.        *)
FormFails(f) ==
  /\ forms[f].pc # "idle"
  /\ forms' = [forms EXCEPT ![f] = Idle]
  /\ UNCHANGED <<courses, sent, overlapped>>

FormNext(f) ==
  \/ Submit(f) \/ CheckTyped(f) \/ GenerateCode(f) \/ RandGen(f)
  \/ Recheck(f) \/ SaveCourse(f) \/ FormFails(f)

-----------------------------------------------------------------------------
(* Two courses have one code only if two requests looked it up before either *)
(* saved its course: no other order of typed, generated and random codes ends*)
(* there, and a code that was free when it was chosen is not taken again.    *)
CodesDistinct ==
  \A i, j \in 1..Len(courses) :
    i # j /\ courses[i] = courses[j] => courses[i] \in overlapped

(* What it rests on.                                                         *)
Saving ==
  /\ \A f \in Forms : forms[f].pc \in {"typed", "recheck", "save"} => forms[f].code # NoCode
  /\ \A f \in Forms : forms[f].pc \in {"typed", "generate"} => forms[f].seed # NoCode
  /\ \A f \in Forms : forms[f].pc = "save" /\ Taken(forms[f].code)
                      => forms[f].code \in overlapped
  /\ \A f, g \in Forms :
       (f # g /\ forms[f].pc = "save" /\ forms[g].pc = "save"
        /\ forms[f].code = forms[g].code) => forms[f].code \in overlapped

FormInv == FormTypeOK /\ Saving /\ CodesDistinct
=============================================================================

----------------------------- MODULE Onboarding -----------------------------
(* `a2l init` (cli.py: _run_init and its stages): the resumable onboarding  *)
(* of a vault, whose progress is .a2l/init.json, and an `a2l sync` in       *)
(* another terminal that reads its choices there (pipeline.py:              *)
(* load_sync_preferences).                                                  *)
(*                                                                          *)
(* Every stage reads what init.json has, asks for what it lacks, and saves  *)
(* the answer before the next one begins.  An init may end at any prompt    *)
(* and in any stage, and enrolments change while it runs or rests; the next *)
(* init resumes.  A term is a number, in the order of _term_sort_key.       *)
(*                                                                          *)
(* The claim of the vault is VaultRoot's, skills are Skills's, the session  *)
(* and calibration Connection's, and what a metadata or a file sync does    *)
(* with a course MetadataSync's and SourceInstall's.                        *)
EXTENDS Naturals, FiniteSetsExt

CONSTANTS
    Courses,    \* the student's academic course offerings
    LastTerm,   \* the latest term of any of them
    TermOf,     \* their terms
    Unset,      \* a field that init.json does not have
    Idle,       \* no sync is running
    MaxChanges  \* bound: how often the active enrolments change

ASSUME CoursesAssumption ==
    /\ LastTerm \in Nat
    /\ TermOf \in [Courses -> 1..LastTerm]
    /\ Unset \notin Nat \cup {"full", "priority", "later"}
    /\ MaxChanges \in Nat
    /\ \A courses \in SUBSET Courses : courses # Unset /\ courses # Idle

VARIABLES
    stage,     \* the stage init is in
    saved,     \* init.json
    enrolled,  \* the active enrolments
    changes,   \* how often they changed
    found,     \* the active courses init's calibration found
    term,      \* the term this init works on
    approved,  \* whether the student has approved a new term in this init
    chosen,    \* the courses of this init
    sync,      \* the courses of the sync in the other terminal
    allowed,   \* every course the student has ever selected
    listed,    \* the courses whose metadata was read
    fetched,   \* the courses whose files were synced, with the scope
    absent     \* the selected courses that were not active when work was done

work == <<allowed, listed, fetched, absent>>
onboardingVars == <<stage, saved, enrolled, changes, found, term, approved, chosen, sync, work>>

Terms == {TermOf[c] : c \in Courses}
Scopes == {"full", "priority", "later"}
Stages == {"off", "vault", "skills", "grades", "profile", "backend", "session",
           "discovery", "term", "switch", "courses", "metadata", "scope", "files"}

\* What is asked before the sign-in.
Questions == {"vault", "skills", "grades", "profile"}

\* _validate_init_state: the fields of init.json.  `settled` stands for
\* vault_confirmed, skills_status (installed or declined), grades_configured
\* and profile_consent with the auth_backend that follows from it; what was
\* answered there makes no difference to what init does later.
States ==
    [settled : SUBSET Questions,
     term : Terms \cup {Unset},
     last_seen_term : Terms \cup {Unset},
     selected : {Unset} \cup SUBSET Courses,
     metadata_complete : BOOLEAN,
     file_scope : Scopes \cup {Unset},
     file_complete : BOOLEAN]

OnboardingTypeOK ==
    /\ stage \in Stages
    /\ saved \in States
    /\ enrolled \subseteq Courses
    /\ changes \in 0..MaxChanges
    /\ found \subseteq Courses
    /\ term \in Terms \cup {Unset}
    /\ approved \in BOOLEAN
    /\ chosen \subseteq Courses
    /\ sync \in {Idle} \cup SUBSET Courses
    /\ allowed \subseteq Courses
    /\ listed \subseteq Courses
    /\ fetched \subseteq Courses \X Scopes
    /\ absent \subseteq Courses

OnboardingInit ==
    /\ stage = "off"
    /\ saved = [settled |-> {}, term |-> Unset, last_seen_term |-> Unset,
                selected |-> Unset, metadata_complete |-> FALSE,
                file_scope |-> Unset, file_complete |-> FALSE]
    /\ enrolled \in SUBSET Courses
    /\ changes = 0
    /\ found = {}
    /\ term = Unset
    /\ approved = FALSE
    /\ chosen = {}
    /\ sync = Idle
    /\ allowed = {} /\ listed = {} /\ fetched = {} /\ absent = {}

\* What init remembers of this run beside init.json.
run == <<found, term, approved, chosen>>
Outside == UNCHANGED <<enrolled, changes, sync>>

\* The process ends, and its memory with it.
End ==
    /\ stage' = "off"
    /\ found' = {}
    /\ term' = Unset
    /\ approved' = FALSE
    /\ chosen' = {}

-----------------------------------------------------------------------------
(* Vault, skills, grades, profile *)

Start ==
    /\ stage = "off"
    /\ stage' = "vault"
    /\ UNCHANGED <<saved, run, work>>
    /\ Outside

Settle(question) == saved' = [saved EXCEPT !.settled = @ \cup {question}]

\* The student confirms the previewed vault, or confirmed it before.
ConfirmVault ==
    /\ stage = "vault"
    /\ Settle("vault")
    /\ stage' = "skills"
    /\ UNCHANGED <<run, work>>
    /\ Outside

\* _configure_init_skills: installed or declined once and for all; agents that
\* were not there are looked for again by the next init.
ConfigureSkills ==
    /\ stage = "skills"
    /\ Settle("skills") \/ UNCHANGED saved
    /\ stage' = "grades"
    /\ UNCHANGED <<run, work>>
    /\ Outside

\* _configure_init_grades, and _save_init_config.
ConfigureGrades ==
    /\ stage = "grades"
    /\ Settle("grades")
    /\ stage' = "profile"
    /\ UNCHANGED <<run, work>>
    /\ Outside

\* _configure_init_auth: consent to the dedicated profile is saved before the
\* hidden paste is offered in its place.
ConfigureProfile ==
    /\ stage = "profile"
    /\ Settle("profile")
    /\ stage' = "backend"
    /\ UNCHANGED <<run, work>>
    /\ Outside

\* The dedicated profile, or the paste the student accepts.
ConfigureBackend ==
    /\ stage = "backend"
    /\ stage' = "session"
    /\ UNCHANGED <<saved, run, work>>
    /\ Outside

\* A saved session of this school is used, otherwise the student signs in.
HaveSession ==
    /\ stage = "session"
    /\ stage' = "discovery"
    /\ UNCHANGED <<saved, run, work>>
    /\ Outside

-----------------------------------------------------------------------------
(* The term *)

\* calibrate, and what is active of it.
Discover ==
    /\ stage = "discovery"
    /\ found' = enrolled
    /\ stage' = "term"
    /\ UNCHANGED <<saved, term, approved, chosen, work>>
    /\ Outside

ActiveTerms == {TermOf[c] : c \in found}

LastSeen == IF saved.last_seen_term # Unset THEN saved.last_seen_term ELSE saved.term

\* _new_active_terms.
NewTerms == IF LastSeen = Unset THEN {} ELSE {t \in ActiveTerms : t > LastSeen}

\* "New term detected: Sync?"  No: it is remembered, and init ends.
DeclineNewTerm ==
    /\ stage = "term"
    /\ NewTerms # {}
    /\ saved' = [saved EXCEPT !.last_seen_term = Max(ActiveTerms)]
    /\ End
    /\ UNCHANGED work
    /\ Outside

\* _choose_active_term: the only one, or the one the student names, which may
\* be another than the new term that was just approved.
ChooseTerm ==
    /\ stage = "term"
    /\ \E t \in ActiveTerms : term' = t
    /\ approved' = (NewTerms # {})
    /\ stage' = "switch"
    /\ UNCHANGED <<saved, found, chosen, work>>
    /\ Outside

\* A switch that keeps the answers of the term before.
SwitchOnly(state) == [state EXCEPT !.term = term]

\* The answers of the term before do not hold for this one.
Switched(state) ==
    [state EXCEPT !.term = term, !.selected = Unset, !.file_scope = Unset,
                  !.file_complete = FALSE, !.metadata_complete = FALSE]

\* Another term than before, approved now or just before.  (When the student
\* declines, init ends and saves nothing: Stop.)
SwitchTerm ==
    /\ stage = "switch"
    /\ saved' = IF saved.term \notin {Unset, term} THEN Switched(saved) ELSE saved
    /\ stage' = "courses"
    /\ UNCHANGED <<run, work>>
    /\ Outside

-----------------------------------------------------------------------------
(* Courses, metadata, files *)

OfTerm(courses) == {c \in courses : TermOf[c] = term}

\* _prompt_course_selection: all, none, or any that the student names; an
\* unknown name is asked for again.
Selections(courses) == SUBSET courses

\* The saved selection, as far as it is active, or one that is asked for and
\* saved.
SelectCourses ==
    /\ stage = "courses"
    /\ IF saved.term = term /\ saved.selected # Unset
       THEN /\ chosen' = saved.selected \cap OfTerm(found)
            /\ UNCHANGED <<saved, allowed>>
       ELSE \E selection \in Selections(OfTerm(found)) :
                /\ chosen' = selection
                /\ allowed' = allowed \cup selection
                /\ saved' = [saved EXCEPT !.term = term, !.selected = selection,
                                          !.metadata_complete = FALSE,
                                          !.file_complete = FALSE]
    /\ stage' = "metadata"
    /\ UNCHANGED <<found, term, approved, listed, fetched, absent>>
    /\ Outside

\* The selected courses whose metadata nobody read because they were not
\* active at the time.
Missed == saved.selected \ chosen

\* ingest_metadata had no errors, or had none in an earlier init.
SyncMetadata ==
    /\ stage = "metadata"
    /\ IF saved.metadata_complete
       THEN UNCHANGED <<saved, listed, absent>>
       ELSE /\ listed' = listed \cup chosen
            /\ absent' = absent \cup Missed
            /\ saved' = [saved EXCEPT !.metadata_complete = TRUE,
                                      !.last_seen_term = Max(ActiveTerms)]
    /\ IF saved.file_complete THEN End ELSE stage' = "scope" /\ UNCHANGED run
    /\ UNCHANGED <<allowed, fetched>>
    /\ Outside

\* _prompt_file_scope, unless a scope is saved.
ChooseScope ==
    /\ stage = "scope"
    /\ IF saved.file_scope # Unset
       THEN UNCHANGED saved
       ELSE \E scope \in Scopes : saved' = [saved EXCEPT !.file_scope = scope]
    /\ stage' = "files"
    /\ UNCHANGED <<run, work>>
    /\ Outside

\* run_pipeline returned 0: "later" downloads nothing and completes as well.
SyncFiles ==
    /\ stage = "files"
    /\ fetched' = fetched \cup (chosen \X {saved.file_scope})
    /\ absent' = absent \cup Missed
    /\ saved' = [saved EXCEPT !.file_complete = TRUE]
    /\ End
    /\ UNCHANGED <<allowed, listed>>
    /\ Outside

\* A prompt that is declined, a stage that fails, Ctrl-C, a kill: whatever is
\* saved is saved.
Stop ==
    /\ stage # "off"
    /\ End
    /\ UNCHANGED <<saved, work>>
    /\ Outside

-----------------------------------------------------------------------------
(* a2l sync in the other terminal *)

\* Preferences that fall back to everything that is active.
PreferencesOrAll ==
    IF saved.selected = Unset THEN enrolled ELSE saved.selected

\* load_sync_preferences: the saved selection, or no sync at all.
Preferences == saved.selected

SyncStarts ==
    /\ sync = Idle
    /\ "vault" \in saved.settled
    /\ Preferences # Unset
    /\ sync' = Preferences
    /\ UNCHANGED <<stage, saved, enrolled, changes, run, work>>

\* run_pipeline with its own calibration; what it selects is active.
SyncLists ==
    /\ sync # Idle
    /\ listed' = listed \cup (sync \cap enrolled)
    /\ sync' = Idle
    /\ UNCHANGED <<stage, saved, enrolled, changes, run, allowed, fetched, absent>>

\* External: a term begins or ends, a course is dropped or added.
Enrol ==
    /\ changes < MaxChanges
    /\ changes' = changes + 1
    /\ \E courses \in SUBSET Courses : courses # enrolled /\ enrolled' = courses
    /\ UNCHANGED <<stage, saved, run, sync, work>>

-----------------------------------------------------------------------------

OnboardingNext ==
    \/ Start \/ ConfirmVault \/ ConfigureSkills \/ ConfigureGrades
    \/ ConfigureProfile \/ ConfigureBackend \/ HaveSession
    \/ Discover \/ DeclineNewTerm \/ ChooseTerm \/ SwitchTerm
    \/ SelectCourses \/ SyncMetadata \/ ChooseScope \/ SyncFiles
    \/ Stop
    \/ SyncStarts \/ SyncLists \/ Enrol

OnboardingSpec == OnboardingInit /\ [][OnboardingNext]_onboardingVars

-----------------------------------------------------------------------------
(* Properties *)

\* However often init was stopped, resumed and led to another term: the saved
\* selection is of the saved term, and what init.json calls complete was done
\* for every selected course that was active, with the saved scope (the
\* resets of _run_init).
CompleteIsDone ==
    saved.selected # Unset =>
        \A c \in saved.selected :
            /\ TermOf[c] = saved.term
            /\ saved.metadata_complete => c \in listed \cup absent
            /\ saved.file_complete => c \in absent \/ <<c, saved.file_scope>> \in fetched

\* Neither init nor a sync that overlaps it reads a course that the student
\* has not selected (load_sync_preferences, _run_init).
OnlySelected == listed \cup {f[1] : f \in fetched} \subseteq allowed
=============================================================================

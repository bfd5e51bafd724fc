------------------------------ MODULE WorkspaceFiles ------------------------------
(***************************************************************************)
(* The filesystem of a computer workspace (ComputerWorkspace.ts), used by      *)
(* several fibers at once: which of the platform's errors the nullable          *)
(* operations turn into an answer.  An operation takes effect somewhere         *)
(* between its call and its reply.                                            *)
(***************************************************************************)
EXTENDS TLC

CONSTANTS
    Fibers, Paths,
    Uses,        \* fiber -> the operations it uses
    Invalid,     \* paths the platform refuses, with text that mentions ENOENT
    None

InvalidAssumption == Invalid \subseteq Paths

\* Operations on what a path leads to, and on the entry that has its name.  stat stands
\* for readFile, readdir, find, ls, grep and chmod too, which fail alike.
Follows == {"stat", "statOrNull", "exists"}
Looks == {"lstat", "lstatOrNull", "readlink"}
Nullable == {"statOrNull", "lstatOrNull", "exists"}
Changing == {"writeFile", "mkdir", "rm", "rename", "symlink"}
Kinds == Follows \union Looks \union Changing

\* The errors of the platform: their code, if it survived, and whether their text
\* says that the entry is missing.
Missing == [code : {"ENOENT", None}, text : {TRUE}]
Refused == [code : {"EINVAL"}, text : {TRUE}]
Broken == [code : {"EIO", None}, text : {FALSE}]

\* The absence of an error is none of the replies.
NoneAssumption == None \notin Missing \union Refused \union Broken \union {"found", "missing", "EINVAL"}

VARIABLES
    file,    \* path -> "none", "entry" or the path that it is a link to
    op,      \* fiber -> [at, kind, path, to, error]: at "idle", "called", "acted"
    seen,    \* history: fiber -> the states of its path since its call
    answer   \* fiber -> its last answer: "found", "missing", "done", "error" or None

vars == <<file, op, seen, answer>>

Plain(fs, p) == IF p \in Invalid THEN "invalid" ELSE IF fs[p] = "none" THEN "missing" ELSE "entry"

\* What an operation of kind k finds at p; the platform follows one link.
State(fs, k, p) ==
    IF k \notin Follows \union {"writeFile"} \/ fs[p] \notin Paths THEN Plain(fs, p)
    ELSE IF fs[fs[p]] \in Paths THEN "loop"
    ELSE Plain(fs, fs[p])

Leads(p) == IF file[p] \in Paths THEN file[p] ELSE p

Idle == [at |-> "idle", kind |-> "stat", path |-> None, to |-> None, error |-> None]

Init ==
    /\ file \in {e \in [Paths -> {"none", "entry"}] : \A p \in Invalid : e[p] = "none"}
    /\ op = [f \in Fibers |-> Idle] /\ seen = [f \in Fibers |-> {}]
    /\ answer = [f \in Fibers |-> None]

\* rename(path, to); symlink(to, path).
Call(f, k, p, q) ==
    /\ op[f].at = "idle" /\ k \in Uses[f]
    /\ IF k \in {"rename", "symlink"} THEN q \notin Invalid \union {p} ELSE q = p
    /\ op' = [op EXCEPT ![f] = [at |-> "called", kind |-> k, path |-> p, to |-> q, error |-> None]]
    /\ seen' = [seen EXCEPT ![f] = {State(file, k, p)}]
    /\ answer' = [answer EXCEPT ![f] = None]
    /\ UNCHANGED file

\* Everyone who is looking sees what happens to his path.
Changes(new) ==
    /\ file' = new
    /\ seen' = [g \in Fibers |->
                  IF op[g].at # "called" THEN seen[g]
                  ELSE seen[g] \union {State(new, op[g].kind, op[g].path)}]

Acts(f, error) == op' = [op EXCEPT ![f].at = "acted", ![f].error = error]

Fails(f, errors) == \E e \in errors : Acts(f, e) /\ UNCHANGED <<file, seen>>

\* The platform does what it was asked, or says why not.
Act(f) ==
    LET o == op[f]
        now == State(file, o.kind, o.path)
    IN
    /\ o.at = "called"
    /\ \/ Fails(f, Broken)
       \/ now = "invalid" /\ Fails(f, Refused)
       \/ now = "missing" /\ o.kind \notin {"writeFile", "mkdir", "symlink"} /\ Fails(f, Missing)
       \/ o.kind = "readlink" /\ now = "entry" /\ file[o.path] \notin Paths /\ Fails(f, Refused)
       \/ /\ now = "entry" /\ o.kind \in Follows \union Looks
          /\ o.kind = "readlink" => file[o.path] \in Paths
          /\ Acts(f, None) /\ UNCHANGED <<file, seen>>
       \/ /\ o.kind = "writeFile" /\ now \in {"entry", "missing"}
          /\ Acts(f, None) /\ Changes([file EXCEPT ![Leads(o.path)] = "entry"])
       \/ /\ o.kind \in {"mkdir", "symlink"} /\ now = "missing"
          /\ Acts(f, None)
          /\ Changes([file EXCEPT ![o.path] = IF o.kind = "symlink" THEN o.to ELSE "entry"])
       \/ /\ o.kind = "rm" /\ now = "entry"
          /\ Acts(f, None) /\ Changes([file EXCEPT ![o.path] = "none"])
       \/ /\ o.kind = "rename" /\ now = "entry"
          /\ Acts(f, None) /\ Changes([file EXCEPT ![o.path] = "none", ![o.to] = file[o.path]])
    /\ UNCHANGED answer

\* Mutant: the text of the error, whatever its code.
ByText(e) == e.text

\* Mutant: the code only.
ByCode(e) == e.code = "ENOENT"

\* isNotFound
IsNotFound(e) == IF e.code # None THEN e.code = "ENOENT" ELSE e.text

\* Mutant: an error reaches the caller as it is.
Raw(o) == IF o.error = None THEN "done" ELSE "ENOENT"

\* tryFs, and the catch of statOrNull, lstatOrNull and exists.
Answer(o) ==
    IF o.error = None THEN (IF o.kind \in Changing THEN "done" ELSE "found")
    ELSE IF o.kind \in Nullable /\ IsNotFound(o.error) THEN "missing"
    ELSE "error"

Reply(f) ==
    /\ op[f].at = "acted"
    /\ answer' = [answer EXCEPT ![f] = Answer(op[f])]
    /\ op' = [op EXCEPT ![f] = Idle]
    /\ UNCHANGED <<file, seen>>

Next ==
    \E f \in Fibers :
        \/ \E k \in Kinds, p, q \in Paths : Call(f, k, p, q)
        \/ Act(f) \/ Reply(f)

Spec == Init /\ [][Next]_vars

----------------------------------------------------------------------------
TypeOK ==
    /\ file \in [Paths -> Paths \union {"none", "entry"}] /\ \A p \in Invalid : file[p] = "none"
    /\ answer \in [Fibers -> {"found", "missing", "done", "error", None}]
    /\ \A f \in Fibers :
         op[f].at \in {"idle", "called", "acted"} /\ seen[f] \subseteq {"entry", "missing", "invalid", "loop"}

\* A file is said to be missing, or found, only if it was so at some time of the
\* operation, whoever wrote, moved or removed it meanwhile; a path that is refused
\* is never said to be missing, nor is a link that leads nowhere when the link itself
\* was asked for.
AnswersAreTrue ==
    \A f \in Fibers :
        /\ answer[f] = "missing" => "missing" \in seen[f]
        /\ answer[f] = "found" => "entry" \in seen[f]

\* Asking whether a file is there never fails because it is not, even when its
\* error lost its code on the way.
MissingIsNoError ==
    [][\A f \in Fibers :
         (op[f].at = "acted" /\ op[f].kind \in Nullable /\ op[f].error \in Missing /\ op'[f] = Idle)
         => answer'[f] = "missing"]_vars
=============================================================================

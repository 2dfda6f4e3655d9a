-------------------------------- MODULE JobDoc --------------------------------
(***************************************************************************)
(* The MongoDB job document (src/models/job.model.js) reduced to the paths *)
(* that decide what happens to a job, and the writes the code makes to it. *)
(*                                                                         *)
(* A mongoose save() does not write the document back: it sends $set for   *)
(* the paths whose value differs from the value that was loaded, and $push *)
(* for the history entry, filtered by _id alone.  `Saved' is that rule.    *)
(* findOneAndUpdate in finalizeJob is the only write with a condition.     *)
(***************************************************************************)
EXTENDS Integers

CONSTANTS
    Workers,     \* values of WORKER_ID, one per worker process
    NoWorker,    \* lockedBy = null
    MaxAttempts  \* job.maxAttempts: client-supplied, any integer

ASSUME DocAssumption ==
    /\ NoWorker \notin Workers
    /\ MaxAttempts \in Int

\* FAILED is in the schema's enum, but no code path ever writes it.
Status == {"QUEUED", "PROCESSING", "RETRYING",
           "COMPLETED", "DEAD_LETTER", "CANCELLED"}

\* cancelJob's terminalStates.
Terminal == {"COMPLETED", "DEAD_LETTER", "CANCELLED"}

Owner == Workers \cup {NoWorker}

(***************************************************************************)
(* "ABSENT" is the status of a document not inserted yet.  `lock' is       *)
(* lockExpiresAt seen from the present: null, in the future or in the      *)
(* past.  `runs' is the number of PROCESSING entries in `history', which   *)
(* only ever grows by $push.                                               *)
(***************************************************************************)
Doc == [status          : Status \cup {"ABSENT"},
        attempts        : Nat,
        lockedBy        : Owner,
        lock            : {"null", "future", "past"},
        cancelRequested : BOOLEAN,
        runs            : Nat]

NoDoc == [status |-> "ABSENT", attempts |-> 0, lockedBy |-> NoWorker,
          lock |-> "null", cancelRequested |-> FALSE, runs |-> 0]

\* Job.create in submitJob: the schema's defaults.
NewDoc == [NoDoc EXCEPT !.status = "QUEUED"]

\* The paths of a loaded document that processJob later compares or reuses.
Loaded == [status : Status \cup {"ABSENT"}, attempts : Nat, lockedBy : Owner]

NothingLoaded == [status |-> "ABSENT", attempts |-> 0, lockedBy |-> NoWorker]

Load(doc) == [status |-> doc.status, attempts |-> doc.attempts,
              lockedBy |-> doc.lockedBy]

\* What save() leaves in a path: `new' is sent only if it differs from the
\* value that was loaded; otherwise the stored value, whatever it is by now.
Saved(new, loaded, stored) == IF new = loaded THEN stored ELSE new

\* processJob's claim write by worker w.  attempts is an absolute $set, so it
\* overwrites; the new lockExpiresAt always differs from the loaded one.
ClaimWrite(doc, seen, w) ==
    [doc EXCEPT !.status   = Saved("PROCESSING", seen.status, @),
                !.lockedBy = Saved(w, seen.lockedBy, @),
                !.lock     = "future",
                !.attempts = seen.attempts + 1,
                !.runs     = @ + 1]

\* The in-memory document after that save().
Claimed(seen, w) == [status |-> "PROCESSING", attempts |-> seen.attempts + 1, lockedBy |-> w]

\* promoteReadyJobs' write, over a document loaded with status `seen'.
PromotionWrite(doc, seen) == [doc EXCEPT !.status = Saved("QUEUED", seen, @)]

\* Mutant of Release: lockedBy: null is missing from the $set.
ReleaseKeepsOwner(doc, status) == [doc EXCEPT !.status = status, !.lock = "null"]

\* The $set every finishing write shares.
Release(doc, status) ==
    [doc EXCEPT !.status = status, !.lockedBy = NoWorker, !.lock = "null"]

\* Mutant of Lands: findOneAndUpdate by _id alone.
LandsUnfenced(doc, owner) == doc.status # "ABSENT"

\* finalizeJob: the $set lands only while lockedBy is the expected owner.
Lands(doc, owner) == doc.lockedBy = owner

Finalize(doc, owner, status) ==
    IF Lands(doc, owner) THEN Release(doc, status) ELSE doc

\* Mutant of FailureStatus: > for >=.
FailureStatusOffByOne(attempts, nonRetryable) ==
    IF attempts > MaxAttempts \/ nonRetryable THEN "DEAD_LETTER" ELSE "RETRYING"

\* handleFailure's choice, from the attempts of the document it was handed.
FailureStatus(attempts, nonRetryable) ==
    IF attempts >= MaxAttempts \/ nonRetryable THEN "DEAD_LETTER" ELSE "RETRYING"
===============================================================================

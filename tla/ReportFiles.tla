----------------------------- MODULE ReportFiles -----------------------------
(***************************************************************************)
(* The output directory: a report per run and format, and one latest file  *)
(* per format that every run overwrites.  Written by the file output one   *)
(* format after the other; removed by the clean-up of a deleted run, which *)
(* decides about all latest files from what latest.json holds.             *)
(***************************************************************************)
EXTENDS Sequences, Integers

CONSTANTS
    Runs,       \* the runs whose reports there may be
    NoRun,
    Formats     \* DAWNPATROL_OUTPUT_FILE_FORMATS, in order

VARIABLES
    reports,    \* <<run, format>>: the dated report files
    latest      \* the run each latest file is about, or NoRun

fileVars == <<reports, latest>>

Format == {Formats[i] : i \in 1..Len(Formats)}

FilesInit ==
    /\ reports = {}
    /\ latest = [f \in Format |-> NoRun]

\* emit: the dated file of a format; then its latest file too.
WriteReport(run, f) ==
    /\ reports' = reports \cup {<<run, f>>}
    /\ UNCHANGED latest

WriteFormat(run, f) ==
    /\ reports' = reports \cup {<<run, f>>}
    /\ latest' = [latest EXCEPT ![f] = run]

\* _delete_run_files: the run's dated files go first.
UnlinkReports(run) ==
    /\ reports' = {r \in reports : r[1] # run}
    /\ UNCHANGED latest

\* Whether latest.json says that this run is the latest.
IsLatest(run) == "json" \in Format /\ latest["json"] = run

\* Slip: latest files are removed whoever they belong to.
UnlinkLatestBlindly(wasLatest) ==
    /\ latest' = [f \in Format |-> NoRun]
    /\ UNCHANGED reports

UnlinkLatest(wasLatest) ==
    /\ latest' = IF wasLatest THEN [f \in Format |-> NoRun] ELSE latest
    /\ UNCHANGED reports

\* What the directory still holds of a run.
LeftOf(run) == {r \in reports : r[1] = run} \cup {f \in Format : latest[f] = run}
=============================================================================

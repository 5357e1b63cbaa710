# AeroCom_Error: a TLA+ verification project

This directory holds TLA+ models of the AeroCom_Error code base (`py/`,
`notebooks/*.py` and the batch and download scripts), the TLC configurations
that check them, and TLAPS proofs about them. Paths below are relative to the
repository.

The repository is a chain of scripts that run on a batch system and talk to each
other through files. There is no server and no shared memory: what can go wrong
is what happens to *files* - written in place, half written when a job is
killed, trusted because of a modification time, replaced while another script
reads them, matched by a glob that was meant for another file. The models are
therefore models of file trees and of the programs that walk over them.

## 1. Inventory

### Components, their state and their operations

| component | code | state it keeps | operations |
|---|---|---|---|
| Source download | `extract_data_ap3.sh` | `Data/AP3_2026/{model}/*.nc`; deletes from `Data/AP3_processed_monthly` | per model and variable: delete 0-byte files, skip or not, `scp` from release 2019, fall back to AP3, delete 0-byte files |
| Catalogue processing | `py/get_data.py`, `py/aerocom_data.py` | `Data/AP3_processed_monthly/{var}/{model}_{var}_processed.nc` | discover models, find a file, freshness test, read and normalise, write in place, count |
| PPE extraction | `py/ppe_extract_monthly.py`, `py/PPE_set.py`, `ppe_extract_monthly.sbatch` | scratch member files, durable group files, `provenance.csv` | per member: freshness, resolve each variable over seven streams, write and rename; per group: concatenate, write and rename |
| Time and longitude normalisation | `py/functions.py`, `py/aerocom_data.py` L47-280, `notebooks/notebook_setup.py` L633-660 | none | decode a time axis, map months to their first day, wrap longitudes |
| Regional aggregate tables | `py/build_regional_aggregates.py`, `py/build_monthly_regional_aggregates.py` | `tables/*.parquet` and meta JSON | per model: normalise, sum, filter, derive, mask, average; homogenise with observations |
| Aggregate cache | `py/agg_cache.py` | `tables/cache/*.parquet`, `*_meta.json` | fingerprint, validate, save and load the parts |
| PPE error attribution | `notebooks/AAOD_error_attribution_PPE.py`, `notebooks/AOD_SS_ERROR_PPE.py`, `py/ppe_precip_gpcp.py` | two parquet tables in `Data/PPE_AAOD`, `potential_issues.md` | load the four group files lazily, derive, aggregate, cache, read the satellite months, fit, list what was missing; match months with GPCP |
| AeroCom error attribution | `notebooks/error_attribution.py`, `AOD_error_attribution.py`, `figure3_error_attribution.py`, sensitivity scripts | figures and CSV tables | model selection, regressions, decompositions |
| Notebook helpers | `notebooks/notebook_setup.py` | none | sums with `require_all`, masks, lifetimes |
| Satellite collocation | `py/SPEXone_regrid_model.py` (a SLURM array, one task per month), `py/interp_POLDER_AERCOM.py`, `py/omi_hcho.py`, `py/download_omi_hcho.py`, `py/cameo_toolbox.py` | `Data/SPEXone_regridded/{month}.parquet` and gridded files | glob a month, remove the old file, append file by file; sample, download |
| Plot scripts, notebook generators | the rest | figures, notebooks | straight-line |

Vendored packages (`.nb_tools/`, `.pdf_lib/`), `literature/` and notebook outputs
are left aside.

### How they interact

```
 AeroCom server --scp--> AP3_2026/        \
                         AEROCOM_III/ ------> get_data.py --> AP3_processed_monthly/ --> build_*_aggregates --> tables/
   extract_data_ap3.sh --(RENEW=true: rm)----------------------^                              |
                                                                                       notebooks (agg_cache)
 PPE_Experiments/ --> ppe_extract_monthly.py --> members/ --> *_monthly.nc + provenance.csv --> *_PPE.py <--> Data/PPE_AAOD tables
 SPEXone L2 files --> SPEXone_regrid_model.py (array) --> SPEXone_regridded/{month}.parquet --------^
```

All arrows are files. The only coordination is the comparison of modification
times (`>=`, so ties count as fresh), 0-byte tests, and existence tests. Batch
jobs and interactive scripts can overlap, and every program may be killed
(time limit `ppe_extract_monthly.sbatch:9`, lost connection, Ctrl-C).

### Which behaviours are hard

* two jobs with one temporary file name (PPE extraction);
* a program killed between any two steps, and what the next run trusts;
* a source that changes between the freshness test and the read, or whose
  change the modification time does not show;
* `scp` that fails for one of several files, or brings a 0-byte placeholder;
* globs that match another variable's files;
* one program deleting what another is writing (RENEW=true beside `get_data.py`);
* failures that are logged and swallowed, with exit status 0;
* several output files of one run replaced one after the other;
* lazy reads: a session reads the coordinates of a group file now and its values
  cells later, from whatever lies at the path then;
* a cache guard that each of four cells evaluates again;
* a file that becomes readable only when its footer is written, under its
  published name, by tasks nothing keeps apart.

`PROJECT.json` lists each hazard at its line with the properties aimed at it.

### What makes each component correct

* download: no 0-byte file survives a finished run; what the chosen release
  offers is fetched whole; RENEW=false never touches data that is there; a run
  skips what it has (the documented default); every run ends if `scp`
  returns.
* processing: a processed file is whole unless its writer failed; a file the
  freshness test keeps was made from the source processing would use now; after
  a quiet run everything usable is processed; every pair is counted once.
* PPE extraction: readers see whole files that never get older; a fresh member
  is what extraction would give; group files reflect exactly the kept members;
  provenance agrees with the member files; no member is lost silently.
* time normalisation: every documented convention ends at the represented
  month, however many scripts normalise again.
* aggregate tables: what is summed is complete; nothing readable is left out;
  filters apply before derivation; tables and meta belong to the same build.
* satellite months: a month that can be read holds every file of it with data.
* analysis sessions: a table is of one extraction and has every member; the two
  tables belong together; a fit takes both its means from one extraction; a month
  the report does not list was used whole.

## 2. Modules

| module | models | instance for TLC |
|---|---|---|
| `AtomicStore` | what a write-temporary-then-rename writer promises readers (abstract) | through `PpeExtract` |
| `PpeExtract` | `py/ppe_extract_monthly.py` as run by any number of batch jobs | `MCPpeExtract` |
| `PpeExtract_proofs`, `PpeMembers_proofs` | theorems about `PpeExtract`: files and types; what is in the files | - |
| `Catalogue` | the file trees shared by download and processing; the server; time | through the next ones |
| `FetchSource` | `extract_data_ap3.sh` | `MCFetch` |
| `FetchSource_proofs` | theorems about `FetchSource` | - |
| `ProcessStream` | `get_data.py` and `process_and_save_model_data` | `MCPipeline` |
| `Pipeline` | both at once on the same trees | `MCPipeline` |
| `Pipeline_proofs` | theorems about processing beside a download: whole files, counts, freshness | - |
| `MonthlyFields` | the processed monthly files as the table builders load them, and the sums and model discovery both share | through the next ones |
| `RegionalBuild` | `py/build_regional_aggregates.py` and what the notebooks take from its table | `MCTables` |
| `MonthlyBuild` | `py/build_monthly_regional_aggregates.py` with its dask workers | `MCTables` |
| `Tables` | both at once while `get_data.py` writes the files again | `MCTables` |
| `MonthlyBuild_proofs`, `RegionalBuild_proofs` | theorems about the two tables of `Tables` | - |
| `Launches` | how many programs of the PPE analysis are started | through the next ones |
| `GroupFiles` | the four group files as readers meet them while an extraction is at its group loop | through `PpeAnalysis` |
| `SpexoneRegrid` | `py/SPEXone_regrid_model.py`, any number of array tasks | through `PpeAnalysis` |
| `PpeAnalysis` | sessions of `notebooks/AAOD_error_attribution_PPE.py` beside both | `MCAnalysis` |
| `SpexoneRegrid_proofs`, `PpeAnalysis_proofs` | theorems about these | - |

### PpeExtract

A file is `[whole, mtime, body]`. The body of a member says for each variable
which version of which stream it was taken from (or `Missing`); the body of a
group says what it holds of each member. A source file is `[ver, mtime]`. A job
is a record of its program counter and the Python locals that matter: `cur`
(member or group at hand), `todo`, `paths` (= `member_paths`), `rows`, `body`.
`at` says where the inode that `to_netcdf` has open can be found: under the
temporary name, under the published name (another job renamed it), or nowhere.
This is the detail that makes overlapping jobs interesting, since
`HDF5_USE_FILE_LOCKING=FALSE` (sbatch L35) disables the library's own guard.

| action | code |
|---|---|
| `Start` | `main` L570-593: arguments, `discover_ensembles` (`Plans`), `reset_provenance` |
| `Check`, `Skip` | `write_member` L442-444, `member_is_fresh`, `provenance_from_existing_member` |
| `ReadVar` | one turn of the loop of `build_member_dataset` L236-259; with L275-276 at its end |
| `OpenTmp`, `FinishWrite`, `WriteFails` | `to_netcdf` L450-454 and L501-505 |
| `MemberRaises` | an exception before the `try` of `write_member`: in the freshness test, the provenance of a skipped member, loading or aligning a variable (L181-202 have no `except`) |
| `Publish`, `Cleanup` | `tmp.replace(out)` L455/L507, the `finally` L456-462 |
| `Record` | `member_paths.append`, `append_provenance` L596-599 |
| `Concat` | `write_group_ensemble` L476-497 |
| `Kill` | SIGKILL, time limit |
| `EditSource`, `Tick` | the experiment tree (another user), the clock |

`Raise` is what an exception does: swallowed by the member loop (L598), `return
1` in the group loop (L612-614). History variables: `contended` (targets whose
temporary file two jobs held at once), `excused` (members whose source changed
in a way the freshness test cannot see, or that failed to open),
`job[j].alone`.

### Catalogue, FetchSource, ProcessStream, Pipeline

`Catalogue` declares the two releases on the server, the two local source trees,
the processed files, the directories made, and time. A local file is
`[size, ver, mtime]` with size class `empty`, `part` or `full`. `FetchSource`
is the shell script, one action per command that touches a file: `Wipe` (mkdir
and RENEW=true), `Look` (first find loop and the skip test), `ScpOpen`,
`ScpData`, `ScpDone`, `ScpFail` (scp's truncate, data under the final name, close, give up), `ScpEnd` (the test of
`$?`), `Sweep` (second find loop), `FetchKill`. `Matches[v]` is the glob
`*${v}*`: the variables whose files it lists. `ShellStep` are the script's own
steps, `ScpStep` those it waits for.

`ProcessStream` is the streaming path of `get_data.py`: `ProcessStart` (the model
lists, taken once), `Find`, `Stat`, `Read`, `OpenOutput`, `CloseOutput`,
`WriteFails`, `ProcessKill`; `Counted` is the summary counter and the next turn.
`Pipeline` runs both: a step of the script may remove the file that the processor
holds open (it keeps writing to an inode without a name, `proc.named`), and
`blind` records source changes the comparison of modification times cannot show.

### MonthlyFields, RegionalBuild, MonthlyBuild, Tables

These follow the *provenance* of numbers, not the numbers: a field is the set of
variables it is computed from, `{}` when it cannot be had. A monthly file is
`absent`, `broken`, `untimed` (no usable time axis), `offyear` (no month of the
seasons), with `holes` in the regions, with missing cells only where POLDER
looked (`edge`), or `ok`. What the code then does is set algebra: `SumDatasets`
with or without `require_all`, `Derived` (`calculate_derived_var`), `MeanRows`,
`LifetimeRows` (whose value is `in` or `out` of 0.3 to 50 days), `SampleRows`, and the
rows of the table as records `[region, dataset, var, source, from, value]`. A row
keeps in `from` what its value was computed from; for a fit, the models it used.

| action | code |
|---|---|
| `StartBuild` | `build` L708-750: `--models`, `--no-homogenize`, discovery by three variables |
| `NoPolder`, `NoRows` | the exceptions of `load_polder_df` and of a frame without columns |
| `LoadModel` | `process_one_model` for the next model in the order of names (`IsNext`); `Loads(m)` is what it may read |
| `OpenTable`, `CloseTable`, `TableFails` | `to_parquet` L813, in place |
| `OpenMeta`, `CloseMeta` | `write_text` L835 |
| `StartMonthly`, `DoTask`, `LoseWorker` | `build_monthly`: the tasks in any order, repeated for a lost worker |
| `NothingAggregated`, `OpenMonthly`, ... | L492-527, as above |
| `KillBuild`, `KillMonthly` | Ctrl-C, time limit, an exception in a task |
| `BeginRewrite`, `EndRewrite` | `get_data.py` processing one model again, in place |

While a model is being rewritten a reader, which opens its files one after the
other, may meet any of them half written, up to `MaxMet`; `_load_one_model_netcdf`
swallows the error and the field is missing. A rewrite leaves each file as it was.
`Requests` says how often `--models` names each model. A model named twice stays in the
list twice (L743): it has two *turns*, each loads for itself, and each adds a pair to
what a fit counts. In the monthly table the second task would only repeat rows, so it
is not followed there. Twice is the bound: a name given three times, whose model alone
makes three pairs, is not modelled.
`disturbed` (history) names the models this happened to in a build, `completed`
and `mdone` the builds whose table was finished. `OverlayLifetimes` and
`ObservationUsed` are what the notebooks select from the table.

In the monthly table the regions differ only in their cells, so one stands for
all; a coefficient also carries whether it was screened by
`apply_aerosol_quality_filter`.

### Launches, GroupFiles, SpexoneRegrid, PpeAnalysis

`PpeExtract` shows that a group file no two jobs write at once is whole for every
reader. `GroupFiles` starts from there: `PublishGroup` is one rename of
`write_group_ensemble`, `GroupFails` the `return 1` of the group loop, and a group
file is `[gen, members, fit]` - the extraction it is of, its members in the
order of their number, and whether it has the variables an analysis needs. One
extraction is at its group loop at a time. `halfway` (history) says that one ended
between two groups and none has replaced all of them since.

`SpexoneRegrid` has one action per step of the main loop (L306-355) and per way it
ends. A month's file is `[whole, parts, shared, cut]`: `whole` when its footer is
written, `parts` the L2 files in it; the histories `shared` (two tasks wrote it at
the same time) and `cut` (an exception closed it: the writer's finalizer writes the
footer, so the part becomes readable). A task's `at` is `path` or `gone`, as another
task may have removed the file it writes.

| action | code |
|---|---|
| `StartTask`, `RemoveOld` | the task's month, the glob and the early exit on an empty month; `os.path.exists` and `os.remove` |
| `SkipSparse` | a file without bins: `continue` |
| `OpenGrid`, `AppendGrid` | the `ParquetWriter` made by the first file with bins; `write_table` |
| `CloseGrid`, `TaskRaises`, `KillTask` | `writer.close()`; an exception anywhere after the start (an unreadable file, a full disk, memory, Ctrl-C); `scancel`, time limit |

`PpeAnalysis` is the session. A number is `[gen, member]`: the extraction and the
member it is from. `xarray.open_dataset` reads the coordinates; the values are
read when a cell computes with them, by opening the path again, at the position
the member had when the coordinates were read (`Position`, `Value`: external,
how xarray and netCDF4 behave with a file that was closed in between). `Extractions` are
the `gen` of what a fit takes from the grids in memory (sampled means) and of what it
takes from the table (regional means), which are another session's when the guard
found no table in cells 1 and 3 and one in cell 4 (L635).

| action | code |
|---|---|
| `CellOne`, `OpenGroup`, `SelectMembers` | cell 1: the cache guard, the four `open_dataset` calls, `sel(ens=eid)` for every member (L309-347) |
| `CellTwo`, `CellThree`, `CellFour` | the guard again, and what the cell does without grids (L635-731) |
| `Compute` | one member's values in cells 2, 3 and 4; cell 4 passes over a member it cannot aggregate |
| `OpenTable`, `CloseTable`, `TableFails` | the two `to_parquet` calls in place (L727-728), a failing one and its clean-up |
| `ReadMonthly`, `ReadSeasonal` | the cached tables (L640-643) |
| `LookForMonths`, `ReadMonth`, `WriteReport` | the existence loop and the reads of the satellite months (L1172-1182), the fit, `potential_issues.md` |
| `KillSession` | Ctrl-C, a closed kernel, the time limit |

History: `quiet` (no group file was replaced during the session, and it began at a
consistent set), `flipped` (the guard answered both ways within one session),
`complete` (sessions that wrote both tables), `crossed` (sessions that wrote tables
while another did).

## 3. Runs

| run | question | distinct states |
|---|---|---|
| `PpeExtract_overlap` | two jobs, one member, one edit, one failure, two starts, two clock values: wholeness, freshness, refinement of `AtomicStore` | 2.8 M |
| `PpeExtract_groups` | one job at a time, two members, two variables, two groups, one failure, two starts: group files, provenance, lost members, termination | 0.2 M |
| `PpeExtract_status` | violated: the provenance status of a skipped member | - |
| `Fetch_runs` | two variables with overlapping globs, three server states and one change of the server at any time, one failure, two runs, all settings: clean-up, completeness, RENEW=false keeps data, termination if `scp` returns | 0.6 M |
| `Fetch_skip` | violated: by default a pair that has a file is skipped, and no other | - |
| `Pipeline_wipe` | downloads with RENEW=true beside processing, one failure, three starts: wholeness, counting, termination | 0.3 M |
| `Pipeline_default` | downloads beside processing, a server change, clock, three starts: freshness and completeness | 5.1 M |
| `Pipeline_shadow` | violated: a model hidden by an empty directory | - |
| `Tables_builds` | both table builders and rewrites of the monthly files, two of them in all, over 25 archives with one flaw each, three states of the observations, all models or two of them with one name given twice: complete lifetimes and totals, fits that agree with the table, nothing readable left out, table and meta file | 0.4 M |
| `Tables_holes`, `Tables_screen` | violated: a regional mean over fields with missing cells; unscreened absorption in the monthly coefficient | - |
| `Analysis_sessions` | sessions with and without the cache, an extraction, array tasks, two starts in all, five kinds of group files and two satellite archives: the tables, the fit, the months and the report | 0.5 M |

**Bounds.** The programs handle members, pairs and groups one after the other and
independently, so one or two of each reach every interaction: two are needed
where the order or the loss of one matters (groups, globs), two jobs where they
share a name. `MaxStarts` is two or three: crash, then a run that must cope, and
(for the pipeline) one run of the other program in between. `MaxClock` is one or
two ticks: the freshness test compares two times, and ties must occur. `MaxEdits`,
`MaxUploads` and `MaxFaults` bound the world, not the programs. All are constants
checked in guards of the environment's actions and `Start`. For the tables, `MaxStarts`
counts builds of either kind and rewrites together: two reach a build beside
another, after an interrupted one, or beside a rewrite. An archive of `MCTables`
has one flawed model of three - one file with each flaw, one file alone, each
lifetime outcome - so that a fit loses its third model when it loses that one;
`MaxLost = 1` repeats one task. `MaxMet = 1`: a load meets one unfinished file, beside the flaw
the archive may have, so two species of a total, or both files of a derived field, can
be unusable at once; the theorems hold for any `MaxMet`. (With `MaxMet = 2` and no name
given twice the run has 0.9 M states and holds too.)
In `MCAnalysis` two programs are started, and the
initial states already hold what earlier ones left (no or one extraction, no or all
gridded months, no or both tables of an earlier session): a session meets an earlier
session's tables and, beside them, one program at work - a second session, an
extraction that succeeds or ends half way, or a task on one of two months. `FitIsOfOneExtraction`
is about a guard that changes its answer, which takes two sessions, and about files that
are replaced, which takes an extraction: in this run one or the other, in `Analysis_cache.cfg`, a
further instance of `MCAnalysis` with three programs, one member, two groups and no tasks (2.6 M
states), both together. The theorem is for any number of them. The
extractions differ in their members, their number, a group that lacks one, and a
group without its variables; the months have files with and without bins, a file
that cannot be read, or none.

`CHECK_DEADLOCK FALSE`: the system may stop (no job started, bounds spent).

**Fairness.** Weak fairness only of the steps of a program that was started and neither
finished nor was killed: the operating system schedules it. For jobs that is every
step (`FairSpec`), for the download the shell's own steps (`FairFetch`), for `get_data.py`
the processor's (`FairPipeline`). Nothing is assumed about starts, failures, time,
the server or `scp`. `scp` is called without a timeout or a keep-alive (L136, L142), so a
server that stalls keeps the script where it is, and "every run ends" is false of the
script alone: `FetchEnds` says that it ends *if* every `scp` returns, with the premise
(`ScpReturns`) written into the property. `JobsEnd` and `ProcessEnds` say
that no sequence of failures and foreign changes keeps those programs from their end;
`ProcessEnds` needs nothing of the download beside it. The loops run over lists fixed
at the start, so what these three could miss is a failure path that does not move on;
their mutants are of that kind. The table
builders have no fairness and no liveness property: their loops run over a list
fixed at the start, and every step but `LoseWorker` shortens what is left. The
same holds for sessions, group loops and array tasks.

**What the properties leave out.** Several hazards do happen in this code, and a property
that denied them would be false. The models contain these behaviours; a history
variable, or a condition, names them, and the properties say what holds everywhere
else. So these outcomes are *excused*, not ruled out:

| excused | by | in |
|---|---|---|
| two jobs shared a temporary file | `contended` | `WholeUnlessContended`, `FreshIsCurrent`, `ImplementsAtomicStore` |
| a source changed unseen by modification times, or failed to open once | `excused` | `FreshIsCurrent` of `PpeExtract` |
| another job ran, or the job returned 1 after a group failed | `alone`, `exit` | `GroupsReflectMembers`, `ProvenanceMatchesMembers` |
| a member's failure was logged and passed over | no fault in `NoMemberLost`; the kept members in `GroupsReflectMembers` | these two |
| scp failed for one file, or the server changed | `Undisturbed` | `OfferedIsFetched` |
| a truncated download (not empty) stays | only 0-byte files are meant | `NoEmptyLeft` |
| a writer died in place | `broken` | `WholeUnlessBroken`, `FreshIsCurrent` of `Pipeline` |
| a change the times do not show, between test and read | `blind` | `FreshIsCurrent`, `AfterRunCurrent` |
| the download removed or brought files during the run, or the run crashed | `quiet`, exit ok | `AfterRunCurrent`, `EveryPairCounted` |
| monthly files were being written when they were read | `disturbed` | `ReadableIsInTheTable`, `EveryTaskIsInTheTable` |
| a total without `require_all` misses species | only lifetimes are meant | `OverlayIsComplete` |
| a new table stands beside an older meta file | one direction only | `MetaFollowsTable`, `MonthlyMetaFollowsTable` |
| an extraction replaced group files under a session | `quiet` | `TableIsOfOneExtraction`, `FitIsOfOneExtraction` |
| the cache guard changed its answer | `flipped` | `TableIsOfOneExtraction`, `TableHasItsMembers` |
| two sessions wrote the table at once | `shared` | `TableHasItsMembers` |
| a session ended between its two tables, or two wrote at once | `complete`, `crossed` | `TablesAgree` |
| an exception closed a month, or two tasks wrote it | `cut`, `shared` | `ReadableMonthIsComplete`, `NothingMissingSilently` |

`FitIsOfOneExtraction` has no exclusion for a guard that changes its answer: that is the
case it is about.

**Mutants.** Each property has a definition `Mutant...` beside the operator it
replaces, a plausible slip in that code under which TLC finds the property
violated in the same run.

## 4. What the violated runs show

1. `PpeExtract_status`: `provenance_from_existing_member` L394 logs `monthly` for every
   variable present; a member taken from the 3-hourly stream changes its status
   in `provenance.csv` on the next run.
2. `Fetch_skip`: the comment at L18-19 says that by default a model and variable
   whose non-empty source file exists is skipped. The script sets `RENEW=FALSE`, its
   tests compare with `true` and `false`: everything is copied again, over files that
   held data. There is a second cause, seen by running with `Settings = {"false"}`
   (what the comment means): `*dryss*` lists `od550dryss` files, so with that file
   present `dryss` is taken as present and never downloaded.
3. `Pipeline_shadow`: the directory `mkdir -p` makes for every model decides that the
   model belongs to the primary tree, even when nothing could be downloaded.
4. `Tables_holes`: `regional_aggregate` is called with `skipna=False`. Without `skipna`
   the code still sums with xarray's default, which passes over NaN, and divides
   by the weight of every cell: a missing cell counts as a zero
   (`cameo_toolbox.py:1729-1730`), and a region without any value has mean zero.
5. `Tables_screen`: `_derive_pre_agg` of the monthly builder reads `abs550aer` again
   (L274) over the screened field, so MAC is computed from the unscreened one
   while MEC, SSA and AE are screened.

## 5. Proofs

All theorems hold for every value of the constants that satisfies the named
assumptions of the modules; TLC evaluates these in the runs. Most assumptions say
what a constant is for. The others:

* `MonthlyFieldsAssumption` (`od550aer` is a variable, there is a burden) and
  `RegionalBuildAssumption` (the names of lifetimes are not names of variables, POLDER
  and GPCP not of models; the variables a model row is derived from are variables) are
  facts about the lists in the code; `FetchAssumption` says that `*v*` lists v's own
  files, `CatalogueAssumption` that the script's lists are not empty.
* `OrderAssumption` (`PpeExtract`): the lists the loops run over name every variable and
  every group, and no plan names a member twice - `discover_ensembles` sorts the names
  of directories. `GroupFilesAssumption` says of the group list that it is a list and
  not empty, `AnalysisAssumption` that the months listed are the months.
* `NoneIsNoFile` (in `PpeExtract` and `GroupFiles`), `NoGridIsNoGrid`: the mark of an absent
  file is not itself a file.
* `SelectionAssumption` (`ProcessStream`): a selection of the pairs is a sequence of
  selected pairs and leaves none of them out. It holds of `SelectSeq` by its recursive
  definition, out of which the prover can derive nothing; TLC evaluates it for the
  instance.

**`PpeExtract_proofs`**: `TypeCorrect` (which includes that a path kept in
`member_paths` always has a file, as the group loop relies on), `Wholeness`
(`WholeUnlessContended`) and `Refinement` (`ImplementsAtomicStore`, where `out` is the
abstract store and `contended` the spoiled paths). `WholeUnlessContended` is not
inductive: renaming publishes whatever is at the temporary path. `IInv` adds
`Exclusive(t)` for every target that was never contended: at most one job is
between opening and renaming t's temporary file, no handle reaches the published
file, a closed temporary file waiting to be renamed is whole, and times only grow.
One lemma per action and conjunct (`Type...`, `Excl...`), and the refinement step for
step: `Publish` is `Put`, a second `OpenTmp` is `Spoil`, a write through a renamed
handle is `Scribble`, everything else stutters.

**`PpeMembers_proofs`**: `Freshness` (`FreshIsCurrent`), `GroupsAreOfMembers`
(`GroupsReflectMembers`), `ProvenanceMatches` (`ProvenanceMatchesMembers`), `NothingLost`
(`NoMemberLost`): what the published files say. `MembersInv` adds to `IInv` four parts.
`CurrentInv`: what a job has resolved so far of a member is what it would resolve now,
and so is a member file, also one that waits under its temporary name, that is not older than its sources.
`SoloInv`: what a job that runs alone renames is what it wrote. `GroupsInv` and `LoggedInv`
follow the two loops of `main`: the groups behind the group loop hold exactly the kept
members, the rows of the members behind the member loop agree with their files, and
no plan repeats a member, else the second turn could change a file whose
rows are logged. `KeptInv`: without failures and edits the members behind the loop are
kept, but for those without any variable.

**`FetchSource_proofs`**: `FetchTypeCorrect`, `SafeMode` (`SafeModeKeepsData`),
`NothingEmpty` (`NoEmptyLeft`), `FetchedWhole` (`OfferedIsFetched`): every safety property of the
script. They rest on `OneFileChanges`, `Sweeps` and `ScpTouchesItsPair`, which say what a
step does to the tree. The invariants speak of the middle of a pair, which the
properties do not: under RENEW=false, once the skip test has passed, the glob of the
pair lists no file that held data (`KeepInv`); 0-byte files lie only under the
globs of pairs still to come and of the one being copied (`EmptyInv`); and of a pair
that is done with, a file is whole or waits to be copied again because the current
pair's glob lists it too (`OfferedInv`). The last needs `SameOffer`: both pairs take the
file from the same release - if a pair's release is the first because it lists the
file, then so does the other pair's glob.

**`Pipeline_proofs`**: `Wholeness` (`WholeUnlessBroken`), `Counting`
(`EveryPairCounted`), `ProcessTypeCorrect` (`ProcessTypeOK`), `PipelineFreshness`
(`FreshIsCurrent`), `RunsAreCurrent` (`AfterRunCurrent`). `WholeInv` adds which file the
processor has open and that a file it writes without a name is not at its path;
`CountInv` that the counters and what is left to do sum to the plan, at every point of
the loop. `PipeInv` follows a pair from the model lists to the file: a model has a
directory before it has files (`MadeInv`), the pairs ahead are looked for in the tree
discovery would choose now, or are marked `blind` (`AheadInv`), what the processor has
found, examined and read is what it would find now (`SettledInv`), and a quiet run has
done what is behind it (`BehindInv`). The parts need one another: a file is current
because what was read was, and a skipped pair is done because its file is current.

**`MonthlyBuild_proofs`**: `MonthlyTotals` (`TotalsAreComplete`), `MonthlyMetaFollows`
(`MonthlyMetaFollowsTable`), `EveryTask` (`EveryTaskIsInTheTable`).
**`RegionalBuild_proofs`**: `OverlayComplete` (`OverlayIsComplete`), `MetaFollows`
(`MetaFollowsTable`), `TablesTypeCorrect` (`TablesTypeOK`, of both builders), `Readable`
(`ReadableIsInTheTable`), `Fit` (`FitIsInTheTable`).
What a table is at any time has to be followed from the rows of a model, through the
rows of a build, to the file (`MonthlyTableInv`, `TableInv`); `EveryTask` needs besides
that the tasks done and those still to do make up the models of the build, also after
a lost worker's tasks are put back. `SeasonInv` says the same of the seasonal build: of
the models behind the loop that nothing was writing it holds the files there are.
`Fit` rests on a lemma about the algebra of rows (`PairsAreTheRows`): the models a fit used
are those that have both rows in the same table.

**`SpexoneRegrid_proofs`**: `MonthsComplete` (`ReadableMonthIsComplete`), `SpexoneTypeCorrect`.
`MonthInv` relates what is in a file while it is written to the place of its one
writer in the list: exactly the gridded files before `next`. It also says that no
other task has the file open, and that a file that is being written alone cannot be
read, without which a removed and recreated file could not be told from the old one.

**`PpeAnalysis_proofs`**: `MonthsStayComplete` (the same beside sessions), `MissingIsListed`
(`NothingMissingSilently`), `FitsAreOfOneExtraction` (`FitIsOfOneExtraction`), `PairsOfTablesAgree`
(`TablesAgree`), `AnalysisTypeCorrect` (`AnalysisTypeOK`), `OneExtractionInATable`
(`TableIsOfOneExtraction`), `MembersOfATable` (`TableHasItsMembers`). `SessionInv` follows what a
session knows from cell to cell: which answers of the guard it has seen, which months it
has read whole. For the pair of tables the invariant (`TablesInv`) orders sessions by the
events that matter: who wrote the first table last, whether it still has to write the
second, and who wrote beside it. For what is in a table, `GroupsInv` says when the group
files are of one extraction - none between two groups now, and none ended there - and
`DataInv`, of a session: the members it has are in every group it opened; the rows
behind its loop are those of the members done, and after cell 2 those of all members;
and as long as no group file was replaced, what it opened is what is there, so a
lazy read finds each member at its place and each number of the one extraction.
`RecordsInv` carries this into the tables, and with `complete` through the cache into the
sessions that read them. `FitsInv` is about the session whose guard changes its answer: it
loaded its own grids and takes the rows of a table it did not write. As long as it is quiet,
that table was written while it ran, or is of the same extraction, so both are what the
group files say now.

Only model-checked: `JobsEnd`, `FetchEnds` and `ProcessEnds`, as liveness under fairness is
out of the prover's reach. Every invariant and action property of the passing runs,
and the refinement of `AtomicStore`, is proved.

## 6. Not modelled, and why

* Values: regressions, decompositions, interpolation, masks over real-valued grids
  are numerical; the models keep which file, version and stream a value is from.
* The pickle path of `get_data.py` (`SAVE_PICKLE = False`) and the `explicit` model
  list (`MODEL_SELECTION = 'auto'`), both switched off in the source.
* `.pr`/`precip` aliases and the ordered glob patterns within `find_variable_file`:
  one file per model, variable and frequency.
* Rows of `provenance.csv` for the constant `MISSING_VARS` and the derived `precip`.
* In the table builders: `--regions`, the monthly task of a name given twice, the alignment of grids, masks and region areas,
  and the fall-back of a fit whose slope is below 1e-12 (the sampled value).
* `py/agg_cache.py` is imported by no program of the repository: the notebooks call
  functions of the same names in `build_regional_aggregates.py`. There is no sequence
  of calls to model.
* `AOD_SS_ERROR_PPE.py` loads and caches as `AAOD_error_attribution_PPE.py` does; it
  reads the satellite months from `Data/` where the array writes them into
  `Data/SPEXone_regridded`.
* In `PpeAnalysis`: regressions and figures; that precipitation is read again for
  every region; the existence tests of all months are one step, so are
  `os.path.exists` and `os.remove` of a task; two extractions at their group loops at
  the same time (that is `PpeExtract_overlap`).
* A task that an exception ends leaves a month that can be read and lacks files;
  the session takes it as whole. The properties name this case (`cut`).
* `interp_POLDER_AERCOM.py`, the OMI download and gridding, `ppe_precip_gpcp.py`, and the
  normalisation of time axes and longitudes convert values of one file at a time
  and keep no state; the models keep only whether a file's axis can be used.
* AeroCom error attribution: regressions over real-valued tables in notebooks.
* Plot scripts, notebook generators, vendored packages.

Nearly all lines of the repository are vendored packages (`.nb_tools/`, `.pdf_lib/`),
notebook outputs and plot scripts, so the share of lines the models stand for
is small; of the programs that keep state in files, those the table in section 1
lists, the models cover the main ones.

## 7. Plan

Done: `AtomicStore`, `PpeExtract`; `Catalogue`, `FetchSource`, `ProcessStream`, `Pipeline`;
`MonthlyFields`, `RegionalBuild`, `MonthlyBuild`, `Tables`; `Launches`, `GroupFiles`,
`SpexoneRegrid`, `PpeAnalysis`; the proofs of section 5.

Left, in order of worth:

1. Proofs: a variant for each program (every step of a started program but those of the
   environment makes what is left to do smaller), the part of `JobsEnd`, `FetchEnds` and
   `ProcessEnds` that is not about fairness; that the group loop of one extraction in
   `PpeExtract` implements what `GroupFiles` assumes of it.
2. The month matching of `ppe_precip_gpcp.py` as a pure function against its
   reference, and the four timestamp conventions of `normalize_monthly_time`.
3. The parquet cache of `interp_POLDER_AERCOM.py`; idempotence of
   `_patch_aaod_cache.py`.

# A specification of eirini-staging

eirini-staging turns the source of a Cloud Foundry application into a droplet.
Three containers of one pod run one after the other and share directories:

    downloader ----> executor ----> uploader
        |               |              |
        +------- one PUT to eirini ----+

* the **downloader** (`cmd/downloader`) installs the buildpacks, the
  application and, if there is one, the buildpack cache;
* the **executor** (`cmd/executor`, `builder/`) runs the buildpacks' scripts on
  the application and writes three files: `result.json`, the droplet and the
  archived cache;
* the **uploader** (`cmd/uploader`) stores the droplet and the cache in the
  blobstore and tells eirini of the success.

A failure anywhere is told to eirini by the container that meets it, and its
exit code keeps the next container from starting. There are no threads: what is
hard here is partial failure. Each container is a program of some twenty steps,
every one of which may fail and leave something behind, and the container after
it sees nothing but an exit code and the files.

## Inventory

| part | source | state it keeps | operations | interacts with | what makes it correct |
|---|---|---|---|---|---|
| `builder.Runner` | `builder/runner.go`, `helpers.go`, `descriptive_error.go`, `models.go` | contents directory, deps directories, cache directory, metadata, process types, the three output files | `Run` (17 steps), `CleanUp` | scripts of the buildpacks, `tar`, `cp`, the uploader through files and exit code | exit code 0 means complete, consistent outputs; the scripts run in the order and with the arguments of the buildpack contract; the cache holds what the build used |
| `builder.Config` | `builder/config.go` | `BuildpackOrder`, `SkipDetect` | `InitBuildpacks`, `SupplyBuildpacks`, `DepsIndex` | `Runner` | no index is out of range, one directory per buildpack |
| executor main | `cmd/executor/executor.go` | `exitCode` | extract, configure, `execute`, respond | `Runner`, `Unzipper`, `Responder` | the exit code is that of the failed phase |
| downloader main | `cmd/downloader/downloader.go`, `cmd/commons.go` | shared directories | install, untar, respond | installers, `Responder` | the executor finds whole inputs |
| uploader main | `cmd/uploader/uploader.go` | none | upload, prepare, respond | `DropletUploader`, `Responder` | success is told only after the uploads |
| `Responder` | `responder.go` | none | `RespondWithFailure`, `PrepareSuccessResponse`, `RespondWithSuccess` | eirini (PUT) | at most one answer for a task, and a true one |
| `DropletUploader` | `uploader.go` | none | `Upload` | blobstore (POST) | an error unless the server confirmed |
| `PackageInstaller`, `VerifyingReader` | `package_installer.go`, `checksum/` | the downloaded file | `Install`, `Read` | Cloud Controller (GET) | no error means the whole file with the given checksum |
| `BuildpackManager`, `GitClone` | `buildpack_manager.go`, `git_buildpack.go` | the buildpack directories, `config.json` | `Install` | Cloud Controller, buildpack servers, `git` | no error means every directory holds one whole buildpack |
| `Unzipper` | `unzip.go` | the target directory | `Extract` | archives, a file system with permissions | no error means every entry is in place, none above the limit; no good archive is refused |
| `BuildpacksKeyModifier` | `staging_result_modifier.go` | none | `Modify` | `Responder` | each name is replaced by its own key |
| environment and TLS | `util/` | none | `MustGetEnv`, `CreateTLSHTTPClient` | all mains | |

Left out for good: the struct and constant declarations, the test doubles, the
Dockerfiles, the tests and the vendored libraries.

`PROJECT.json` lists under "hazards" what can go wrong here that a test would
hardly reach, each with the properties that cover it.

## Modules

| module | what it is |
|---|---|
| `Build` | abstract: three files in order, exit code 0 only with all of them |
| `Runner` | one build: every step of `Runner.Run` and `CleanUp`, and the executor's exit code |
| `StagingTask` | abstract: what a task promises to eirini and Cloud Controller |
| `Staging` | a staging task: the three main functions, the callbacks, kills; the build in it is `Build` |
| `Installer` | abstract: work for a while, return without an error only if all is in place |
| `Install` | `BuildpackManager.Install` and `GitClone`: the list of buildpacks, both HTTP clients, the fallback to git |
| `Download` | one download: `PackageInstaller.Install` with `VerifyingReader` between body and file |
| `Unzip` | `Unzipper.Extract`: entries, modes, the limit, a user that permissions bind |
| `Response` | `PrepareSuccessResponse`: names in `result.json` replaced by keys |
| `CacheLife` | the buildpack cache over several stagings of one application |
| `DepsIndex` | the padded names of the deps directories |
| `MC...` | the modules above for TLC |
| `...Proofs` | theorems about them |

How they fit together:

    StagingTask          Installer          Installer        Installer
        ^ implements         ^                  ^                ^
     Staging              Install           Download           Unzip
        | INSTANCE
      Build  <---implements---  Runner

`Runner` implements `Build` (`ImplementsBuild`), `Staging` is built on `Build`
(`Builder == INSTANCE Build`) and implements `StagingTask`
(`ImplementsStagingTask`). What holds of `Staging` therefore rests on what was
shown of `Runner`. Its installation steps, each of which either succeeds or
fails and leaves something behind, are what `Install`, `Download` and `Unzip`
describe step by step; all three implement the same `Installer`
(`ImplementsInstaller`), with their own meaning of "in place". `Response` is
`Staging`'s step `PrepareResponse`; `CacheLife` is a chain of stagings with
all but the cache left out; `DepsIndex` is the naming that `Runner` abstracts to
an index.

Operators named `Slip...` are the definition after them with one plausible
mistake in it; they take no part in the specifications. `PROJECT.json` pairs each with
the property that tells it from the right definition.

### Runner

`pc` is the step of `Run` that comes next. Where a Go function does several
things that can fail one by one, it is split (`createArtifacts` is `SaveInfo`,
`CopyApp`, `PackDroplet`), and where a loop runs scripts, one action is one
iteration (`ValidateSupply`, `Supply`, `Detect`, with the index `i`). Every
error return goes to `cleanUp`, the deferred `CleanUp`, with the exit code that
the executor derives from the error (`errors.As` on `DescriptiveError`, else
`SystemFailCode`); panics are states that `NoPanic` excludes.

| variable | code |
|---|---|
| `order`, `skipDetect` | `Config.BuildpackOrder`, `Config.SkipDetect` |
| `scripts` | which of bin/, detect, supply and finalize each buildpack's directory has |
| `final` | index of the buildpack whose path `supplyOrDetect` returns |
| `cacheDirs` | entries of the build artifacts cache directory |
| `contents` | `runner.contentsDir`: deps/, the config.yml in them, staging_info.yml, app/ |
| `ran` | the scripts run so far with their arguments |
| `metadata`, `procTypes` | `buildpackMetadata`, `releaseInfo.DefaultProcessTypes` |
| `result`, `droplet`, `cacheTgz` | the files at the three output locations: absent (`None`), cut short (`Partial`) or complete |

The scripts are external. The application directory is abstracted to the
sequence of runs made on it: it is the same iff the same scripts ran in the same
order. A script may fail after changing it. `supply` and `finalize` may write
the config.yml of the deps directory they are given the index of (a script that
writes into the directory of another buildpack is not modelled). A name is the
pair of its origin (config.yml or the output of detect) and the buildpack that
wrote it, so that a name read from the wrong place is visible.

Also assumed: `CleanUp`'s `RemoveAll`, whose error the code ignores, succeeds;
every script exits.

### Staging

`container` and `pc` say which main function is at which step, `exit` is the
exit code it will have. `env` holds what differs between tasks: missing
variables, unusable certificates, a cache to download or upload, an unsupported
checksum or none. `written`, `code` and `exited` are `Build`'s, `stored` what the blobstore has,
`sent` and `received` the callbacks made and those that eirini got. A PUT may
be lost, or only its answer; a POST may fail before or after the blobstore
stored the file. `Kill` ends the running container at any step.

External, and modelled as the code relies on it: the next container starts when
the one before exits with 0, and none is restarted (the pod of a staging job has
no retries as far as this repository knows; a retried task would send a second
callback). A server that answers with a status below 400 has done what was
asked.

### Install

| variable | code |
|---|---|
| `order`, `parses` | the JSON list of buildpacks |
| `serves`, `clients` | what each URL has, and which of `internalClient` and `defaultClient` gets it |
| `i`, `pc` | the loop of `Install`, and the step within `install` and `GitClone` |
| `dirs` | the complete files below `BuildpackPath(buildpackDir, name)` |
| `config` | `config.json` |
| `faulty` | a file system, network or git operation has failed by itself |

A file is the URL it comes from, so that a directory with files of two
buildpacks is visible. Extraction is one step with three outcomes, all files,
some of them, or one cut short (which counts as absent); `Unzip` is that step in
detail. Any error of it is a `NotZipFileError` and leads to git, as in the code.
`git clone` refuses a directory that is not empty and may leave part of a
checkout; a server may be unable to clone with `--depth`. An error of
`RemoveAll` between the two clones is ignored, as in the code. Left out: the
temporary archive, which is in a directory of its own.

### Download

`body` is what arrives, `original` the file that the checksum stands for;
`received`, `hashed`, `chunk` and `ending` are the state of `io.Copy` with the
`TeeReader` and the comparison at the end, `file` what is on disk. A read may
return any number of blocks and any end that `io.Reader` allows: the end with
the last blocks or alone. Hash collisions are not modelled, and neither is
`Close`, whose error the code drops.

### Unzip

`archive` is any sequence of files and directories in any order with any modes
and any size around the limit; `again` says that it has been extracted to the
same place before. `tree` is the target directory with kinds, modes and
contents. `AfterMkdirAll` is `os.MkdirAll` as the code uses it: it creates what
is missing with the given mode and leaves alone what is there. Left out:
symbolic links (the code writes their target as a file's content), sticky and
group bits, and that two processes may extract to one place (they do not).

### Response

`provided` is the list that eirini was given, `names` what the executor wrote,
`keys` and `key` the fields that are overwritten. Names and keys are drawn from
one set, so that a key may be the name of another buildpack, and lists may
repeat a name. The other fields of `result.json` are only passed on and are
left out.

### CacheLife

One staging after the other for the same application, each with a list of
buildpacks of its own: download, `untarCache`, `makeDirectories`,
`cleanCacheDir`, scripts, `createCache`, uploads. An entry of `cacheDir` is the
staging that last wrote it. `stored` is the archive in the blobstore, `storedBy`
and `droplets` what has been stored so far. A staging may fail at every step,
and Cloud Controller may or may not offer the stored archive to the next one.

### DepsIndex

`PadTo` is `int(math.Log10(n)) + 1`, in which the logarithm of a power of ten may
round down: both results are possible. A name is its sequence of digits. `Pow10`
is a recursive function and no exponentiation, so that the proofs can use it.

## Runs

| run | bounds | states | what it shows |
|---|---|---|---|
| `runner_safety` | lists of 0 to 3 buildpacks over 2 names, all 9 layouts, every initial cache over the two names, `final` and one left-over file, 2 process types | 643,009 (with symmetry) | the eleven invariants and `NeededCacheKept` |
| `runner_live` | lists of 0 to 2, otherwise the same, no symmetry | 422,827 | `Terminates`, `ImplementsBuild` |
| `staging` | the executor's real exit codes; every environment | 3,241 | the seven properties of `Staging` |
| `staging_algorithm` | as `staging` | | finding 1 |
| `install` | lists of 0 to 3 over 2 names and 2 URLs, which share one of three files | 1,230,240 | `FailsForAReason`, `ImplementsInstaller` |
| `install_names` | lists of 0 to 2 | | finding 2 |
| `download` | bodies and originals of 0 to 3 blocks with 2 contents | 25,592 | `FailsForAReason`, `ImplementsInstaller` |
| `unzip` | archives of 0 to 3 entries over a, a/b, a/c; sizes 1 to 3 with limit 2 | 1,041,954 | `FailsForAReason`, `ExtractsToTree`, `ImplementsInstaller` |
| `unzip_total` | archives of 0 to 2 entries, limit 3 | | finding 3 |
| `response` | lists of 0 to 3 over 3 strings | 347,679 | `FailsForAReason`, `KeysAsProvided` |
| `cache_life` | 4 stagings, 2 supply directories and `final` | 2,535,484 | `ForgottenStaysForgotten`, `CachePassedOn`, `StoredWithDroplet` |
| `deps_index` | 1 to 20, 98 to 102 and 998 to 1002 buildpacks | 6,853 | `ListedInOrder` |

Every run of a module also checks its `TypeOK`.

Why the bounds are enough: a list of three has a first, a middle and a last
element, which is all that the loops and `SupplyBuildpacks` tell apart; two
names give lists with a repeated name, which share a directory; two URLs with a
common file give directories in which one buildpack overwrites another; three
paths have a directory, a file below it and a neighbour, in every order, with a
file of one block below, of two blocks at, and of three above the limit;
three blocks can be cut into reads in every way that matters (before, at and
after the end). Three strings allow a key that is the name of another
buildpack that is provided, or of none. Four stagings let an entry be written, dropped,
missing and written again. Layouts and
environments are exhaustive. The bounds are constants (`MaxBuildpacks`,
`MaxBlocks`, `MaxEntries`, `MaxStagings`, `Sizes`), and the theorems hold for all
values of them. The two buildpacks of `MCRunner` are interchangeable (no
definition names one), so the symmetry of `runner_safety` is sound; the run with
liveness has none.

Fairness: `Runner`, `Install`, `Download`, `Unzip` and `Response` have weak
fairness of `Next`, `Staging` of the steps of the containers (`Run`, not
`Kill`). Each is one process that always has a next step; the assumption is that
scripts and git exit and servers answer or drop the connection. The code sets no
timeout that would enforce either. `CacheLife` and `DepsIndex` state safety only.

The properties that are less obvious than their names:

* `ExitZeroMeansBuilt`: the uploader trusts the exit code and no more, so 0 must
  imply that all three files are complete and that the droplet holds the
  application as the last script left it.
* `NamesFresh`: `Run` reads the names before the final buildpack has run and
  must read them again afterwards; `NamesMatchKeys`: no name is reported for
  another buildpack.
* `BuiltAsSpecified`: the droplet is the result of exactly the runs that the
  buildpack contract asks for; `SelectionRuns` and `FinalRuns` compute them from
  the configuration, and which buildpack was chosen.
* `NoPanic`: with a panic the deferred `os.Exit(exitCode)` in the executor would
  report success. It cannot happen because `InitBuildpacks` leaves `SkipDetect`
  false for an empty list.
* `AtMostOneCallback`, `SuccessIsTrue`, `EndIsKnown`: eirini hears at most once,
  never a false success, and a task that ended with exit code 0 has told eirini.
  `EndIsKnown` also lists the only failures that are not told (`Quiet`, and a
  success callback that failed).
* `FailsForAReason` (four modules): the other half of `ImplementsInstaller`.
  An installer that always failed would keep every promise; this property says
  what may make it fail, and that neither the fallbacks nor the order of things
  is among it. It is what finds a missing `RemoveAll` between two clones, a
  verification before the last block is hashed, and parents that are
  created with the mode of the file below them.
* `ExtractsToTree`: what a well-formed archive becomes depends neither on the
  order of its entries nor on whether it was extracted before. "In place"
  (`ImplementsInstaller`) says nothing of the modes of directories and bounds
  the tree only by what the archive has; this is equality with `Tree`, which is
  computed from the archive alone, and also what `again` starts from.
* `ForgottenStaysForgotten`: `cleanCacheDir` runs before the scripts, so that a
  directory that a staging did not need is in no later archive until its
  buildpack is back and fills it.
* `StoredWithDroplet` rests on the order of the two uploads.

## Findings

1. `integration/staging_test.go:354-362` prepares eirini for a failure callback
   mentioning the algorithm when the checksum algorithm is not supported, but
   `checksumAlgorithm` (`cmd/downloader/downloader.go:108`) calls `log.Fatalf`,
   and no callback is sent. The test does not notice because it only looks at
   the exit code. `UnsupportedAlgorithmTold`, run `staging_algorithm`.
2. `buildpackmanager_test.go:84` and `:123` say that all buildpacks are downloaded
   to the given directory. The directory of a buildpack is the md5 of its name
   (`buildpack_manager.go:79`), and custom buildpacks are all called "custom":
   two with different URLs share one directory, which then mixes them or holds
   the second alone. `AllDownloaded`, run `install_names`. `Installed` is the
   weaker statement that does hold.
3. `unzip_test.go:188` says "when the zip file extracts to more than the limit" it
   should fail (`:194`), but the limit is given to `CopyN` for each entry anew
   (`unzip.go:64`). `TotalWithinLimit`, run `unzip_total`.

## Proofs

What is proved holds for every value of the constants that the named assumptions
admit: lists, archives, bodies and chains of stagings of any length.

| module | proved |
|---|---|
| `RunnerProofs` | `TypeOK`, `NoPanic`, `ExitZeroMeansBuilt`, `OutputsAgree`, `CacheExact`, `NeededCacheKept`, `ValidatedFirst`, `ExitCodeTellsPhase`, `DepsExact`, `NamesMatchKeys`, `NamesFresh`, `BuiltAsSpecified`, refinement of `Build` |
| `StagingProofs` | `TypeOK`, `AtMostOneCallback`, `SuccessIsTrue`, `InputsReady`, `EndIsKnown`, `ExitCodeKept`, refinement of `StagingTask` |
| `InstallProofs` | `TypeOK`, `FailsForAReason`, refinement of `Installer` |
| `DownloadProofs` | `TypeOK`, `FailsForAReason`, refinement of `Installer` |
| `UnzipProofs` | `TypeOK`, `FailsForAReason`, `ExtractsToTree`, refinement of `Installer` |
| `ResponseProofs` | `TypeOK`, `FailsForAReason`, `KeysAsProvided` |
| `CacheLifeProofs` | `TypeOK`, `ForgottenStaysForgotten`, `CachePassedOn`, `StoredWithDroplet` |
| `DepsIndexProofs` | `TypeOK`, `ListedInOrder`, and `DirsListedInOrder`: any two names, not just consecutive ones, are listed in order |

A refinement here is its safety half, `Spec => A!Init /\ [][A!Next]_(A!vars)`.

The inductive invariants, and why they are needed:

* `Runner`. `TypeInv` strengthens `TypeOK` with what each label says of `i`,
  `final`, `contents` and `metadata`: `TypeOK` alone does not tell that `final`
  is in range where it indexes `order`. `BuiltInv` adds what is complete at
  which label, that `result` and `droplet` are built from the current metadata,
  process types and runs, and that the cache is exact from `cleanCacheDir` on;
  without it a droplet written early could be followed by another script.
  Relative to it, each of the later theorems needs one small invariant:
  `ValidInv` (how far the validation has come), `ScriptsInv` (which scripts can
  have run at a label), `FinalInv` and `DepsInv` (which deps directories there
  are), `OwnerInv` (who wrote each config.yml), `FreshInv` (the metadata is
  what the config.yml files say once they are read again) and `RanInv` (the runs
  made at each label: a prefix of the selection, then the selection, then the
  final buildpack's own runs after it; and those that a droplet was made from).
* `Staging`. `TaskInv` says which container a label belongs to, what has been
  downloaded, built and stored by then, and that nothing is sent before the last
  step of a container; `EndInv` adds what was sent when a container exits.
* `Install`. `OriginInv`: every file in a directory is of a buildpack of that
  name that comes no later in the list than the present one. `Complete`: the
  last buildpack of each name before `i` is all there. `ReasonInv`: as long as
  nothing broke, git is reached only for what is no archive or is blocked by a
  read-only file, and the full clone finds an empty directory.
* `Download`. `CopyInv`: the file, the hash and the chunk are adjoining pieces of the
  body, so that at the end the file is the body.
* `Unzip`. `KindInv`, `FileInv` and `OriginInv`: what the entries before `k` need
  is in the tree whatever came between them, and nothing else is. `ReasonInv`:
  while the extraction is smooth, every directory can be written to and only a
  finished file is read-only (`Owned`), so that no entry of a well-formed
  archive finds anything in its way (`Way`). `TreeInv`: in the tree of a
  well-formed archive its owner can write to every directory (`Directory(TRUE)`), and
  what is above an entry is a directory from its `MkdirAll` on; with
  "in place" this determines the tree at every path.
* `Response`. `KeysInv`: keys before `i`, names from `i` on. That the first
  match is well defined needs a least element, by well-founded induction.
* `CacheLife`. `DirInv`: what the cache directory holds at each label;
  `ForgetInv`: `NeverForgotten` of the stored archive, the cache directory after
  its cleaning, and the new archive.
* `DepsIndex`. `DirInv`: the name made last is that of index `i - 1`, at one of the
  widths in `PadTo`. Every index then fits the width (`FormatFits`), and of two
  names the first position where they differ decides (`NamesOrdered`): the
  indices cut off above it are equal, so the digit there has the order
  of the indices.

Two definitions are recursive, `Pow10` and `DetectRuns`. That the function exists
and satisfies its equation (`Pow10Equation`, `DetectRunsEquation`) is proved, not
assumed: approximations up to `n` exist for every `n` and agree where they overlap, each
shown by the impossibility of a least counterexample (`LeastElement`, which rests on
`<` being well-founded). The same argument takes the place of induction elsewhere
(`Pow10Monotonic`, `BelowPow10`).

Only model-checked: termination (`Terminates`) and the liveness halves of the
refinements (fairness and `ENABLED` are out of the prover's reach).

## Not modelled

* The wait for a server or a script that never answers: no client has a timeout
  (`util/http.go`), so nothing in the code bounds it.
* Answers in the 300s, which the uploader counts as stored (`uploader.go:70`):
  what the blobstore means by one is outside this repository.
* The TLS configuration (`util/http.go`) and `MustGetEnv` beyond their failing.
* The contents of `staging_info.yml` and `result.json` beyond what relates them.
* Struct and constant declarations, test doubles, Dockerfiles, tests and
  vendored code: no behaviour of the program.

Nothing of the program's own behaviour is planned beyond this, and every safety
property that a passing run checks is also proved.

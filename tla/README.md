# Trainbot: models, model checking and proofs

Trainbot watches a railway line with a camera. It finds passing trains by
matching patches between successive frames, fits speed and acceleration, stitches
an image of the whole train, stores it in a data directory and gets it to a web
server. This directory holds TLA+ modules of that program (the Rust port under
`crates/` and `bin/`, the uploaders of the Go original and the `rsync-uploader`
script beside it), the TLC configurations that check them, and TLAPS proofs.

Every definition that models code is listed with its source lines in
`PROJECT.json` ("map"); names are those of the source where TLA+ allows it.

## 1. The system

```
 camera / http / rpicam-vid / file
   |  capture thread, bounded channel (cam.rs); scanner (jpeg_scan.rs)
   v
 ConstantFrameTime -> BufSrc thread, bounded lossy queue (buf.rs)
   v
 detect loop (detect.rs) -> AutoStitcher (auto.rs)
                               | find_offset -> pmatch
                               v
                            fit_and_stitch (stitch.rs, fit.rs, ransac)
                               | create_video (video.rs) -> ffmpeg
   v
 save_train: blobs, then row in trains_v2  <-- cleanup command
   v
 rsync-uploader | upload.All + two cleaners (Go)  --> web server, frontend
 
 every process that opens the database runs schema.sql (db.rs, db.go)
 confighelper: the same sources, a preview server for the browser
```

| Component | State | Operations | What is hard | Correct when |
|---|---|---|---|---|
| Detector (`auto.rs`, `sequence.rs`) | previous frame and time, open sequence (images, dx, ts, start), low pass of \|dx\| | `frame`, `process_frame` (dark, slow, fast, still, moving), `record`, `try_stitch_and_reset` | long runs of frames of which some are skipped; sequences that end early, late or full | sequences are consistent, disjoint, bounded; the fit gets what it needs; speeds are not overestimated |
| Fit and stitch (`fit.rs`, `stitch.rs`, `ransac`) | none across calls | `fit_and_stitch`: strip, `fit_dx` (iterated least squares or RANSAC), checks, `stitch`, `composite` | outliers; fits that look good on few samples; rounding, signs, boundaries of the image | the fit is supported by the velocities and ignores outliers; what is recorded is what the image shows; every frame inside of the image, in order |
| Clip (`video.rs`) | a pipe, the ffmpeg process | `create_video`: start, write, close, wait, read back | the process dies at any time; the pipe is full; a truncated clip | no clip is shorter than its sequence; the detector comes back |
| Patch matching (`pmatch`, `find_offset`) | none across calls | `search_rgba` | parallel reduction with ties; off-by-one of the crops | the result of a serial scan; offsets cover -max_dx..max_dx |
| Live pipeline (`cam.rs`, `constant_frame_time.rs`, `buf.rs`, `detect.rs`) | two bounded channels, three threads, stamp counter, failure counter | grab, send, `next_frame`, `try_send`, receive | drops, threads that end, errors that find the queue full | a lossy stream in order; the end always arrives |
| Multipart (`mjpeg_http.rs`) | line buffer, length of the part | `open`, `next_frame`: boundary, headers, body by length | wrong lengths, a boundary inside of an image, streams cut anywhere | images exact, and the next part found where it begins |
| Raw frames and files (`picam3.rs`, `file.rs`, `ffprobe.rs`) | the frame buffer, the list of stamps | `open`, `next_frame` | short reads, processes that stop early, ffprobe and ffmpeg that disagree | frames aligned; an end is only reported after everything was delivered |
| Stream scanner (`jpeg_scan.rs`) | two bytes put back, image in progress | `scan`, `scan_image_data` | streams cut anywhere, markers inside of data | images whole and exact, no read-ahead |
| Store (`save_train`, `crates/store`) | blobs directory, `trains_v2` | save (four writes), insert | failure and crash between the steps, names with less precision than rows | a row has its own whole blobs |
| Cleanup command (`cleanup.rs`) | known names, script | query, directory walk, script | runs beside the detector | lists every orphan; harms no train whose save did not overlap it (old gifs aside) |
| Database file (`schema.sql`, `db.rs`, `db.go`) | tables of two generations | `open` by every process, each time | interruption and repetition, several processes at once | no train of the first schema is lost, doubled or renumbered |
| `rsync-uploader` | file list, commands | rsync blobs, rsync db, delete, wait | trains saved between commands, failing commands, missed events | every train arrives; the database follows its images, and a save in between or a failed copy is no excuse for any other train or a later round |
| Uploader and cleaners (`upload.go`, `queries.rs`) | rows with two flags, local and remote blobs, remote database | `All`, `deleteOldLocalBlobs`, `CleanupOrphanedRemoteBlobs` | three loops without locks, failures, crashes, deleted rows | nothing is lost; what is shown is there |
| Confighelper (`confighelper.rs`) | `FrameState` behind a mutex and a condition variable | publish, stream, snapshot | wake-ups, slow and dead clients | no lost wake-up; streams move on |

The remaining components (pixel arithmetic and conversion, metrics, command line, Go
code that was ported, GPU matcher, frontend, deployment) are in `PROJECT.json` with the
reason why they are not modelled.

Interactions. The pipeline hands frames to the detector by a channel; the detector
hands a finished sequence to the fit by value; `save_train` shares the data
directory and the database with the cleanup command, the rsync script and the Go
uploaders, without any lock but SQLite's; the uploaders share the server with the
frontend.

## 2. Modules

| Module | Models | State and actions |
|---|---|---|
| `AutoStitcher` | detector with its config limits and the acceptance rules of `fit_and_stitch` | one variable per field of `AutoStitcher` and `Sequence`; one action per way through `process_frame`; each takes one frame and makes it the previous one, as `frame()` does |
| `LineFit` | `fit_linear_robust` and `ransac` | one action per round of least squares and per random sample; lines have exact rational parameters |
| `Panorama` | end of `fit_dx` and `stitch` | one action per regenerated offset, per rejection and per frame drawn; the image is a row of columns |
| `ClipEncoder` | `create_video` and the ffmpeg process | the steps of the detector on one side of a pipe, of ffmpeg on the other |
| `FitAndStitch` | `fit_and_stitch`, the composition of the three | the sequence, the step it is in, the result; one action per way out |
| `PatchMatch` | `search_rgba`, `find_offset` | one action per compared column, finished row and pair reduced |
| `FrameStream` | abstract: a lossy stream in order | read, deliver, pass over, close |
| `FramePipeline` | capture thread, `ConstantFrameTime`, `BufSrc`, detect loop; a file that is read without a buffer | one program counter per thread; a channel is a sequence with a capacity; `input` is the device, `probed` the number of frames ffprobe has announced |
| `JpegScan` | `JpegScanner` | one action per `read_n` and per turn of the loop over image data |
| `MjpegHttp` | `MjpegHttpSrc` | the response as a sequence of tokens; one action per line, read and result |
| `RawFrames` | `PiCam3Src` with raw frames, `FileSrc`, what `probe` extracts | the buffer with the number of the byte in each place; one action per read |
| `FrameSources` | `open_source`, the composition of the three | the arguments, and the source that runs |
| `Migration` | `schema.sql` at every open, by processes that may end anywhere and then work with the trains | one action per statement; what is committed, and what the open transaction has made of it |
| `TrainStore` | `save_train`, its crash, cleanup command and its script | one action per write and per phase of the command |
| `RsyncUploader` | the script, its failures and restarts, beside a detector that saves | one action per command; `\|\| true` and `set -e` as control flow |
| `Upload` | `upload.All` and the two cleaners, with failures, crashes, deleted rows and reads that break off | one action per remote or database operation of each loop |
| `ConfigHelper` | capture loop, mutex, condition variable, connections | critical sections as actions; the one that notifies as three |
| `DetectorProofs` | theorems about `AutoStitcher` and `PatchMatch`, and that the search finds the offsets the detector expects | - |
| `FitAndStitchProofs`, `FramePipelineProofs`, `FrameSourcesProofs`, `ConfigHelperProofs`, `UploadProofs`, `TrainStoreProofs` | theorems about the module of the same name and those it composes | - |
| `DatabaseProofs` | theorems about `Migration` and `RsyncUploader` | - |

`FramePipeline` composes the threads and refines `FrameStream`. `RsyncUploader`
contains the abstraction of `TrainStore` it needs (blobs first, then the row), and
`Upload` that of the store and of the frontend (rows appear; the user deletes
them). `MC*` modules only give the constants their values.

Abstractions. Pixels are what the code learns from them: dark or not, offset and
score class of a frame. Times are ticks, the low pass and speeds are integers in
units of a fraction of a pixel. A train, a frame or a picture is a number. The
fit is exact: where the code computes in floating point, `LineFit` solves the least
squares in rational numbers, and takes any sample for a random one. `AutoStitcher` leaves
the fit out and keeps its preconditions and rejections. A response of a web server is a
sequence of tokens (boundary, line end, header with its value, white space, text,
bytes of an image).

## 3. Runs

Bounds are constants of the modules and are chosen so that every case of the code
and every combination of two of them occurs.

| Run | Shows | Bounds and why they suffice |
|---|---|---|
| `stitcher` | sequences stay consistent and disjoint, the buffer bounded; the fit gets ascending times; no speed above the maximum; a sequence goes on after a jump in time only over frames skipped unseen; the low pass stays below the largest offset, and a standing train ends in bounded time | 8 frames, buffer of 4; periods 1 (too fast), 2 and 9 (too slow), offsets -2, 0, 1, 3, 5: still, slow, fast, backward, and impossible after a long gap; a sequence is recorded, filled, ended and a second one begun, and the low pass decays over a standstill, within eight frames |
| `pmatch` | parallel search = serial scan, offsets are exactly -max_dx..max_dx | 3 rows of 3 columns, two scores: every pattern of ties, every order of reduction of three results |
| `fit_and_stitch` | a line that is accepted is supported by half of the velocities; outliers do not change it; frames are inside of the image and in order; recorded length and speed agree with the image; a clip is whole; the detector returns | every way in which 4 frames move by -2, -1, 0, 2 or 3 at even and uneven times, every 5 frames of {0, 1, 4} and of {-3, 0, 2} (outliers of either sign), 8 sequences for RANSAC with 2 model points and every sample (enough for its panic and its failure); 3 rounds of least squares (so that they are used up), a pipe of 2 units (less than a clip), ffmpeg may die at any time |
| `pipeline` | refinement of `FrameStream`, stamps count drops, the loss, failure or end of the source makes the detect loop stop reading even when the queue is full, nothing follows an error | each of the four sources (camera, http, rpicam-vid, a file whose frames, stamps and end may disagree); channels of 2, so that each of them is empty, partly full and full; 12 frames: more than fit in both and in flight |
| `sources` | images are whole and exact and bytes accounted for, in JPEG streams; images of a multipart response are those of its parts, and after a wrong length the next boundary is found; raw frames are aligned in whatever pieces they are read; an end is reported only after everything was delivered | JPEG: one or two images of one or two scans, up to two units of image data per scan (each pair of kinds), cut at every byte; any 4 bytes of a small alphabet after none, an SOI, or an SOS header. Multipart: one or two parts, with line ends and the boundary inside of images, cut after every token; four parts whose second has a length that is too short, too long, missing or no number, and whose header ends with an empty line or one of white space; images that look like the next part or like the end of the response. Raw: up to 3 frames of 3 bytes, cut at every byte, every split of the reads; files with sound, with two videos, with a stamp before the start |
| `migration` | no train of the first schema is lost, doubled or renumbered; a process that works sees all trains; every process gets the database open in the end | 2 processes, up to 2 old trains in every combination of marks, one train found later, 2 ends of a process at any statement; a new file, one of either schema |
| `store` | rows have their own whole blobs, unless their save overlapped the cleanup command, and except for the gifs of the Go detector, which the script removes; what the command does not list belongs to a row | 3 saves beside a row of the Go detector, every step may fail or be the last before a crash, the command at any moment; start times that share a millisecond exist, the live clock never produces them |
| `rsync` | every train reaches the server; the database follows the images of all trains but those saved since the round began to copy, or left out by its failed copy | 2 trains, 2 failures, at any step |
| `upload` | no blob is lost; a train shown as uploaded has its blobs; the newest trains keep local blobs; every train is uploaded; blobs of deleted trains leave the server | 2 trains of 2 blobs, `KEEP_LAST_N` = 2 so that blobs of the older train are removed, one failure or crash, user deletes rows, the list of known blobs may be read in part |
| `confighelper` | no lost wake-up; streams move on and number and picture belong together; a reading client is served although another blocks | 2 clients of either kind, every second of 5 frames |

Two runs are expected to fail, because the program does what an assertion or its
schema excludes ("findings" of `PROJECT.json` quote the lines):

| Run | The code |
|---|---|
| `stitcher_ransac` | can hand `ransac()` fewer inliers than its assertion wants and panic: nine recorded frames of which fewer than six moved |
| `store_overwrite` | replaces the blobs of a saved train by those of one that starts in the same millisecond (video files; a live clock does not do that) |

### Differences met while modelling

The modules follow the code where it differs from a comment, its original or a
document, and the properties above are stated accordingly:

* `auto.rs:211` makes every received frame the reference of the next offset, skipped
  ones as well, while `fit_dx` divides by the time between recorded frames
  (`auto.go:79`: "dx[x] is the pixel offset between frames[i-1] and frames[i]").
  `SpeedNotOverestimated` holds all the same: a speed comes out too low, never too high.
* `auto.rs:149` looks for a jump in time only in dark frames (`auto.go:265`: "Bail out
  when there is too much of a jump in time"). After a stall the next frame is slow, so it
  is skipped unseen, and the sequence goes on. `JumpsOnlyUnseen` says what is left: the
  history variable `unseen` holds the fast and slow frames, and without one of them a
  sequence has no gap longer than `MAX_FRAME_PERIOD_S` and a usable period.
* `stitch.rs:82` draws frame i + 1 dx[i] after frame i, so each frame is placed by the
  offset of the one before it. Order and width are not affected (`FramesPlaced`).
* `stitch.rs:193`: a train whose clip cannot be made is given up, image and all
  (result `"video_error"`).
* `ransac/src/lib.rs` keeps, of the lines with enough inliers, the one whose inliers have
  the least sum of squares, and not the one with most inliers. A line with fewer inliers
  can win; `FitSupported` says what an accepted line has in either case.
* `buf.rs:22` ends its thread at the first error, so `MAX_FAILED_FRAMES` of
  `detect.rs:110` is never reached on a live source (`ErrorIsLast`), although
  `rust-migration.md:194` calls it a restart guard.
* `cleanup.rs:24` reads the database before the directory: a train saved in between is
  in the script. `RowsHaveBlobs` exempts exactly the saves that overlap the command.
* `queries.rs:115` does not know the gifs of trains saved by the Go detector, although
  `cleanup.rs:23` calls the known files "img + gif": the script of the cleanup command
  removes the gif of a train whose row stays. The run `store` starts with such a train and
  `RowsHaveBlobs` says of it only that it keeps its image and thumbnail (`KeptKinds`); that
  it keeps all of its files (`OwnKinds`) is false. (`README_RUST.md:40` allows users to
  delete old GIFs, after they made videos of them.)
* `rsync-uploader:15` promises that images are there before the database. `:16` and `:21`
  (`|| true`) break that when a train is saved between the copies, or the first copy
  fails, until the next round. `DbLast` says what holds: the history variable `missed`
  has the trains saved since this round listed its files and those its failed copy left
  out, and no other train of the database lacks an image; `EventuallyOnServer` says that
  the missed ones get there.
* `queries.rs:91` keeps one train less than `KEEP_LAST_N` (`RecentKept` has the -1).
* `queries.go:173` (`GetAllBlobs`) ends with its last row and never asks `rows.Err()`. When
  the read breaks off, the blobs it has not read count as orphans and are deleted from
  the server. `ReadRowsPartly` models it; `NothingLost` and `ShownIsThere` exempt the
  trains left out (`missed`).
* `ffprobe.rs` asks for the frames of all streams, and `FileSrc` takes their stamps for
  those of the video. A file with sound has more stamps than frames: its frames get wrong
  times, and at its end the assertion of `file.rs:62` fails. `EndIsComplete` says that
  an end in good order is one at which all stamps were those of the frames.
* `file.rs`: `FileSrc` trusts that ffprobe and ffmpeg count the same frames. One frame
  more or less ends the detector by a panic (`DetectPanics`, detector `"panicked"`), so
  `FailureEndsDetection` says that the loop stops reading, not that it ends gracefully.
* `upload.go:111`: a failed upload of the database is only repeated after another train
  has been uploaded, so there is no property that the last train is eventually shown.

`CHECK_DEADLOCK FALSE` is given where the modelled system stops: the frames, saves
streams or sequences of the instance are used up, or the process has ended. The uploaders
never stop and are checked for deadlock.

### Fairness

* `FramePipeline`: weak fairness of each thread's own steps (the operating system
  schedules threads; `recv` and `send` return when they can). None for the device:
  it may never deliver another frame, and liveness starts at its end or error.
* `FitAndStitch`: weak fairness of the detector's steps and of ffmpeg, which reads what is
  in its pipe and ends at the end of its input. That it dies is possible, never certain.
* `Migration`: weak fairness of each process: it opens the database (a service is
  restarted) and its statements return. Ends of processes are bounded.
* `RsyncUploader`: weak fairness of the script: its commands end (ssh and rsync have
  time-outs or fail), `inotifywait` has a timeout of an hour and systemd restarts the
  script (`Restart=on-failure`). Failures are bounded: the server is reachable
  sometimes, in particular once in the 30 days after which blobs are deleted.
* `Upload`: weak fairness of the three loops, which run forever with pauses;
  failures are bounded, as otherwise no attempt needs to succeed.
* `ConfigHelper`: weak fairness of the critical section of the main thread and of the
  threads of connections, except of writing to clients that do not read. None for
  the source.

### Assumptions

* Queue capacities are at least one (`--src-buf-cap 0` makes a rendezvous channel).
* The time stamps of frames never go back (`Periods` is a set of natural numbers). That
  holds for live sources, whose stamps come from one clock or one counter. `FileSrc` takes
  the stamps as ffprobe lists them (`file.rs:72`), where they may repeat or go back:
  `auto.rs:118` then sees a period of 0 and skips the frame, but `auto.rs:209` makes its
  stamp `prev_ts`, and the next usable period may end at or before the last recorded stamp.
  That gap is 0 (`fit.rs:84` saturates too, `fit.rs:96` divides by it): neither positive
  gaps (`SequenceWellFormed`) nor the bound on speeds hold for such a file.
* `StampsCountDrops` is about sources with `--constant-frame-time`.
* In `store` start times of live trains differ by a millisecond or more; what happens
  otherwise is `store_overwrite`.
* A crash is that of a process: what was written stays written. Power loss is out of
  the model, as are torn copies of the database file.
* The fit is exact; equality of two lines is that of rational numbers.
* ffmpeg exits with status 0 only if it has encoded all of its input, and writes each frame
  of a video once; a pipe reports the end of its input and then the exit status.
* SQLite's exclusive transactions exclude every other access and are rolled back when
  their process ends.
* The cleanup command lists the directory in one step.
* An encoder writes images as the JPEG standard lays them out (`Encoded`): a start marker,
  segments with their lengths, after some of them image data in which 0xFF is followed by
  0 or a restart marker, an end marker. Segments may contain anything. `ImagesExact` is
  about streams of such images, cut at any byte; `BytesAccounted` about any bytes.
* A web server with honest lengths sends part after part, with lines of text between them
  of which none is the boundary, and the end marker (`LaidOut`); images are arbitrary. If
  lengths are wrong, all that is assumed is that a line that ends with the boundary, wherever
  it is, is followed by the body of a part behind the next blank line (`BoundariesLead`).
* A file has at least as many stamps as its video has frames, and exactly those of its video
  if there are equally many (`RawFramesAssumption`).

## 4. Proofs

Each proof module extends the module it is about and assumes nothing but that
module's named `ASSUME`s on its constants. All follow one pattern: an inductive
invariant `IInv` (checked with TLC on the instances of the runs before it was
proved), a lemma that `Init` establishes it, one lemma per action or kind of action
that keeps it, and theorems that combine these with the temporal steps.

| Module | Theorem | Property | For every |
|---|---|---|---|
| `DetectorProofs` | `TypeCorrect` | `TypeOK` (with `BufferBounded`) | configuration and number of frames |
| | `SequenceConsistent` | `SequenceWellFormed` | |
| | `SpeedsAreBounded` | `SpeedNotOverestimated` | |
| | `JumpsAreUnseen` | `JumpsOnlyUnseen` | |
| | `LowPassStaysWithin` | `LowPassWithinOffsets` | |
| | `NoSharedFrames` | `SequencesDisjoint` | |
| | `StandstillEnds` | `StandstillBounded` | low-pass factor and limit |
| | `ParallelIsSerial` | `SameAsSerialScan` | size of search area and patch, scores, schedule of the workers |
| | `OffsetsAreSymmetric` | `OffsetInRange` | width of the frame and search distance |
| | `SearchFindsOffsets` | - | period: `Found` of `AutoStitcher` is what `PatchMatch` can report |
| `FitAndStitchProofs` | `FitIsSupported` | `FitSupported` | sequence, threshold, number of rounds and of model points, random sample |
| | `OutliersAreIgnored` | `OutliersIgnored` | |
| | `FramesArePlaced` | `FramesPlaced` | sequence, width of a frame, limits on length and speed |
| | `RecordIsOfImage` | `RecordMatchesImage` | |
| | `ClipIsWhole` | `ClipWhole` | number of frames, size of the pipe, way of ffmpeg to stop |
| `FramePipelineProofs` | `PipelineTypes` | `TypeOK` | source, capacity of both channels, limit of failures, number of frames |
| | `StampsCorrect` | `StampsCountDrops` | |
| | `DeliveryEndsWithError` | `ErrorIsLast` | |
| | `StreamRefinement` | `LossyStreamInOrder` (implements `FrameStream`) | |
| `FrameSourcesProofs` | `BytesAreAccounted` | `BytesAccounted` | stream of bytes |
| | `ImagesAreExact` | `ImagesExact` | stream of an encoder (as assumed above), place where it is cut |
| | `PartsAreExact` | `PartsExact` | response (as assumed above), split of the reads |
| | `FramesAreAligned` | `FramesAligned` | size of a frame, number of bytes, split of the reads |
| | `EndsAreComplete` | `EndIsComplete` | source and what it opens |
| `ConfigHelperProofs` | `ConfigHelperTypes` | `TypeOK` | number of clients and frames |
| | `NoWakeUpIsLost` | `NoLostWakeUp` | |
| | `StreamsMoveForward` | `StreamMovesOn` | |
| `UploadProofs` | `UploadTypes` | `TypeOK` | number of trains, of blobs per train, of failures and crashes |
| | `NoBlobIsLost` | `NothingLost` | |
| | `ShownTrainsAreThere` | `ShownIsThere` | |
| | `NewestTrainsAreKept` | `RecentKept` | |
| `TrainStoreProofs` (assuming `LiveClock`) | `StoreTypes` | `TypeOK` | number of saves, start times, ticks per millisecond, trains of the Go detector |
| | `RowsKeepBlobs` | `RowsHaveBlobs` | |
| | `AllOrphansListed` | `OrphansListed` | |
| | `NoSaveReplaces` | `OneTrainPerFile` | |
| `DatabaseProofs` | `NoOldTrainIsLost` | `OldTrainsKept` | number of processes, of trains of the first schema and of interruptions |
| | `OpenedIsMigrated` | `OpenSeesAllTrains` | |
| | `DatabaseIsLast` | `DbLast` | set of trains, number of failures |

The type invariants of `FramePipeline`, `ConfigHelper`, `Upload` and `TrainStore` are not
repeated in the runs, since they are proved for every value of the constants.

**AutoStitcher.** None of the properties is inductive alone: that a recorded gap is
positive needs the time of the last recorded frame to lie in the past, that
sequences are disjoint needs the same of the sequence handed out. `IInv` adds
`InThePast` for both sequences, and that the low pass is a natural number.
`StepKinds` sorts the ways through `process_frame` into three kinds: the frame is
skipped (`SkippingInv`), recorded (`RecordedInv`, with `AppendWellFormed`), or ends
the sequence (`EndingInv`, with `PrefixWellFormed`, since trailing frames with
offset 0 are stripped). The number of frames left after stripping is a maximum of
a finite set; `Greatest` proves that it exists.

The bound on speeds needs an invariant of its own, `SpeedInv`: an offset is at most what
the period of its frame allows (`Found`), the time since the last recorded frame is at
least that period, and `MaxPxPerFrame` is monotone (`MaxPxPerFrameMonotone`). Skipped
frames can therefore only make a speed too low. `JumpInv`, for the jumps in time, looks ahead:
as long as no unseen frame has come since the last recorded one, that one is recent, since
a dark frame is borne only if it is (`SkippingJump`); the next recorded frame adds one
usable period, and what is left of the gap is no longer than that period, so the width
suffices for it too (`NoJump`, from `MaxPxPerFrameMonotone`). The low pass is a weighted mean, rounded down, of its
last value and an offset, and lies between them (`MeanBetween`).

`StandstillBounded` is about the frames without movement at the end of the sequence, of
which the state keeps only the low pass. `Standing` compares it with the offset of a recorded
frame: after n such frames it is at most that offset times the n-th power of the factor
(`Power`, `PowerStep`). While the sequence is open the low pass is at least one pixel, so
that product is too.

**FitAndStitch.** `IInv` has a part for each stage, and each stage needs what the one before
it left: samples in the order of time (`Order`, `CollectedFacts`), inliers within the
threshold of the line that chose them (`FitInv`), a majority that keeps its speed in every
round (`SpeedInv`), offsets that are differences of rounded positions (`OffsetsInv`), frames
that lie where the running sum of the offsets puts them (`PlaceInv`).

* `FitSupported`: the refit has no greater sum of squares over the inliers than the line
  that chose them, each of which was within the threshold. `Optimal` proves that about
  the closed formula of `ols_linear`, by completing the square over an arbitrary finite
  set (`Expansion`, `NormalEquations`); that its determinant is not zero for two different
  times is `Spread`. Sums over finite sets have no induction here either: each fact about
  them is proved by a smallest counterexample (`Subsets`, `UpTo`).
* `OutliersIgnored`: the seed is the median of the velocities, and a value that more than
  half of them have is the median (`MajorityMedian`); a flat line at that value has just
  the majority as inliers (`FlatInliers`), and the least squares of equal values is the same
  flat line (`FlatFit`), so the next round begins where this one did.
* `FramesPlaced`: `stitch` rejects mixed signs, so the running sum of the offsets is
  monotone (`Layout`): frames stay between its ends, and later ones cover earlier ones only
  on the side to which the train moves (`PlacedInOrder`).
* `RecordMatchesImage`: the offsets telescope (`Telescope`) to the rounded end position,
  which gives the length. For the direction, a train that is at speed at its middle frame
  moves by a pixel or more, before it or after it (`SlowingLine`, `BrakingLine`), in the same
  direction (`SomeOffset`). That needs the first gap to be no longer than the time to the
  middle frame, because `stitch.rs:176` takes that time from the first frame and `fit_dx` from
  the frame before it (a bias kept on purpose, says `:173`). Without the condition it is
  false: a train with gaps 8, 1, 1, 1, 1 and offsets -3, 3, 6, 4, 6 gets the wrong sign.
  `SpeedMatchesImage` states the condition.

**FramePipeline.** That a delivered stamp is right is decided when the frame is still
two queues away. `IInv` says where every number is: frames in the camera's channel
carry the numbers that follow the stamps given so far without a gap (`CamOrder`,
`CamAhead`), the item in the hands of the buffer thread has the newest stamp
(`ItemStamped`), the queue is ascending and newer than what was delivered
(`QueueOrder`), and an error or the end is its last item and the thread is gone
(`EndIsLast`). The refinement takes the newest frame shot for `read` of `FrameStream`, the last one
the detector got for `delivered`, and a detector that reads for `open`: a step of the
capture thread maps to a read or a stutter, a receive to a delivery, a frame of a file
to `Pass`, the end of the detection to `Close`, and the loop over failures to stutters.

**PatchMatch.** `SearchInv` says that a row remembers the first best of the cells it has
compared (`RowScanned`), that what is in the pool was found there (`PoolFound`), and
that something in the pool is as good as any cell of a finished row (`PoolCovers`).
`ReduceDominates` is the heart of it: the better of two results dominates what
either dominates, so the order of reduction cannot matter.

**FrameSources.** One source runs and the others stay as they are, so `SourcesInv` is the
conjunction of `JpegInv`, `HttpInv` and `RawInv`.

* `BytesAccounted` needs to know which bytes were put back: two or none, and only where the
  next marker is read (`PutBack`), so that no read takes them apart.
* `ImagesExact`: as long as the scanner has not failed, it has delivered the first images of
  the stream and is inside of the next (`Parsed`): at the place of one of its markers, in
  a segment whose end, by its length, is such a place, or in image data that reach up to one
  (`Inside`). A length is only believed there, which is why what looks like a marker inside of a
  segment is never looked at. Two bytes that were put back are again the next two of the stream (`Ahead`). A
  read that does not find its bytes is in the image that was cut (`Lost`).
* `PartsExact`: the invariant for an honest server, `Honest`, says where in the response the
  reader is: at the beginning of a line before part k, in its header with or without the
  length, or in its body, with the first k - 1 images delivered. A header has one blank line (white space or
  nothing), its last, and the body begins behind it; a response that breaks off in that line leaves
  the reader waiting for a body that never comes. Image data are never looked at, whatever they look like. With wrong lengths the
  reader may be anywhere; `InPlace` only says that it has come from a line with the boundary when it is in a
  header, and that it is at the beginning of a body, or at the end of the stream, when it reads one.
* `FramesAligned`: of the buffer, what was read of this frame is in its place, and what was
  taken from the pipe before it is a multiple of the frame (`Filled`).
* `EndIsComplete`: an honest response that is not cut ends only at its marker; a file's
  end is accepted only when all stamps were used (`Stamped`), which are at least as many as
  its frames.

**ConfigHelper.** `SleepersMustWait` holds except between `Update` and `Notify`, and
there the mutex is held (`LockHeld`): that is why no wake-up is lost. For streams,
`Shown(c)` relates what a client was shown to the number it remembers, and the
picture in its hands to that number; it survives new pictures because published
ones never change (`ShownKept`), and the other connections' steps (`OthersKept`).

**Upload.** The three loops hold ids and lists they read earlier, so the invariant says
what stays true of them while the others move. A train being uploaded is not marked,
therefore its local blobs are complete (`PendingAreLocal`), therefore the steps done
have made its first blobs whole (`Uploading`), unless its row is gone in the meantime
(`Gone`, which nothing undoes: ids are never used again). A train being swept is
marked (`Sweeping`). A file the cleaner has listed belongs to a train saved before
the rows were read, so if its train is not known, it is gone (`Cleaning`): this is
where the order of the two reads matters. `UploadedAreWhole` follows, and as no copy
of the database is ahead of it (`Copies`), so does what the server shows. For the local blobs of new trains, `SweptIsOld` says that a
train that was swept, even in part, has enough trains after it: as many candidates had
greater ids when it was chosen, whatever became of their rows. The newest of the trains
that have lost local blobs then bounds all others.

**Migration.** A file is either as it was found, with nothing in the new table
(`Unmigrated`), or every old train is in the new table once, with its marks, and the old
ones are empty (`Migrated`). Only a commit leads from one to the other, so `IInv` says
what the transaction has done so far (`WorkDone`, `Copied`), and that only the process
that is in it holds the lock (`LockHeld`). That a later train takes no old id needs
`last_id` to be above them: the greatest id of a finite set (`GreatestOfFinite`). A
second migration finds empty tables and copies nothing, which is `Migrated` again.

**TrainStore.** With a live clock each train has a time stamp greater than that of every
file, row and line of the script so far (`RowsOld`, `FilesOld`, `Old` in `Printed`).
Hence a save touches no file of another train, and a script printed earlier none of
a train found later. What a save has written stays until its row is there
(`Progress`), except for the saves that overlap the command; between the command's
two readings every save in progress is one of those (`Listing`). Without `LiveClock`
the theorems do not hold: that is the run `store_overwrite`.

**RsyncUploader.** `RsyncInv` follows a round: the list has every train of the database
whose blobs are here, but those saved since (`ListSuffices`), hence after the copy all of
them are on the server, but those it left out as well (`CopySuffices`). Both need that trains whose blobs were deleted here are there (`SavedAreKept`),
which needs that nothing grows old that was not copied (`AgedAreCopied`), and that a copy takes
nothing from the server: what was listed is not deleted before it is copied, because
the deletion is a command of the same script (`ListedAreThere`).

Only model-checked: all liveness (`FailureEndsDetection`, `CameraLossEndsDetection`,
`Returns`, `EventuallyOpen`, `EventuallyOnServer`, `EventuallyUploaded`, `OrphansRemoved`,
`ReadersAreServed`). Fairness and ENABLED are out of the prover's reach. So is induction over data: that the
iterated fit converges to anything, or what a fold yields for every sequence, is not
stated as a theorem. Every invariant and every action property of the runs that are
expected to pass is proved.

## 5. Not modelled

Floating-point numerics of the fit and of the scores (their control flow is), pixel
formats and averages, the plots of the feature `debug-fit`, the layout of the Matroska
stream, the estimate of the frame rate in `mjpeg_http.rs`, the parsing of ffprobe's JSON
(the facts it yields are), command line and probing of cameras, SQLite's and ssh's own
protocols, metrics, logging, the frontend but for the commands it shows, and the Go code
that was ported.

## 6. Plan

Order of work, most important first. Done: the detector, pipeline, store, uploader,
matching, confighelper, migration, rsync script, sources, fit, stitching and clip, each with
its proofs. Left:

1. `Detection`: composition of pipeline, detector and store at the level of frames
   (every frame of a train that passes is in a stored train or was dropped), with
   the graceful end of the detect loop.
2. Proofs: that the detector part of `RsyncUploader` (and of `Upload`) is implemented by
   `TrainStore`; measures that decrease with every step of `FitAndStitch` and of the search,
   as the part of their termination that is within the prover's reach.

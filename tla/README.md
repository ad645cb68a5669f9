# A TLA+ specification of mvt_tools

mvt_tools decodes conformance streams with several decoders, hashes every
decoded picture, and compares hashes or pictures with those of a reference.
A tool whose verdict says "the driver is right" has to be right itself: a
picture shown twice, lost at the end of the stream or overwritten while it is
hashed gives a wrong verdict about something else.  This directory specifies
the parts of the tools where that can happen, model-checks them with TLC and
proves the most important properties with TLAPS.

Paths below are relative to the repository (`src/gen_ref_h264_avc.c`);
`PROJECT.json` names the source lines of every definition.

## 1. The system and its parts

| Part | Source | State it keeps | Operations |
|---|---|---|---|
| Decoder core, command line | `mvt_decoder.c` | options, hash, report, output file, `output_info`, `num_frames` | `init`, `run`, `handle_image`, `dump_config`, free |
| FFmpeg decoder base | `mvt_decoder_ffmpeg.c` | format and codec context, one `AVFrame` | `decoder_init`, `decoder_run`, `decode_packet`, `handle_frame`, `decoder_finalize` |
| H.264 reference decoder | `gen_ref_h264_avc.c` | FIFO, two thread contexts, two picture lists, the JM decoder | `jm_init`, parser thread, decoder thread, `jm_decode_packet`, `jm_flush_pictures`, `jm_finalize` |
| VA-API decoder | `dec_ffmpeg.c` | display, config, context, array of surfaces, ring of free surfaces | `get_format`, `get_buffer`, `release_buffer`, `handle_frame`, `finalize` |
| GStreamer decoder | `dec_gstreamer.c` | options, pipeline, parser and decoder plugged, main loop, `error` | option parsing, pipeline set-up, auto-plug and bus callbacks, hand-off callback, run, finalize |
| VPX reference decoder | `gen_ref_vpx.c` | libvpx context | `decode_packet` |
| Raw video generator | `gen_ref_rawvideo.c` | an image file, an image | `run` |
| Image files | `mvt_image_file.c` | file, `image_info`, kind, "headers were written" | `open`, `write_headers`, `write_image`, `read_headers`, `read_image` |
| Comparison tool | `cmp_video.c`, `mvt_image_compare.c` | two image files | compare frame by frame |
| Images, formats | `mvt_image.c`, `mvt_image_convert.c`, `video_format.c` | plane layout, copy cache | allocate, crop, copy out of a surface, convert |
| Hashes | `mvt_hash*.c`, `mvt_image_hash.c` | running sums | init, update, finalize |
| Report | `mvt_report.c` | file | header line, one line a frame |
| Codecs, tables | `mvt_codec.c`, `mvt_map.c`, `ffmpeg_utils.c` | none | look-ups |
| VA utilities, display | `va_utils.c`, `va_image_utils.c`, `mvt_display.c` | the shared display and its count | open, close, map |
| Test driver | `mvt_run.in` | counts of passed, failed, skipped; the files of the last test; one cached path | list, skip or run a test, compare reports |

How they interact.  A tool is the decoder core with one decoder class linked
in.  The core calls the class (`init`, `run`, `finalize`); the class calls back
`handle_image()` for every picture.  Under the FFmpeg base, the H.264 and VPX
reference decoders are FFmpeg codecs: `decoder_run()` calls
`avcodec_decode_video2()`, which calls `jm_decode_packet()`.  The H.264 decoder
adds two threads and a named FIFO of its own, because the JM library only reads
files.  The VA-API decoder is called back by FFmpeg for formats and buffers.
The tools meet through files: the config file that one tool dumps is what
`mvt_run` reads, the output of a decoder is the input of `gen_ref_rawvideo` and
of `cmp_video`, and a verdict is the comparison of two reports.

What is hard in it:

* **two threads, a FIFO and two lists** in the H.264 decoder: pictures go from
  JM to the caller and their buffers come back, while the FIFO can block, the
  decoder thread can end on an error at any moment and JM is not reentrant;
* **starting and stopping threads**: both ends of the FIFO have to be opened at
  the same time, with a time limit after which `jm_finalize()` meets threads
  that are still starting;
* **flags shared without a common lock**: `ACTIVE` is set by the creator
  without the lock under which the thread sets the other flags;
* **a ring of surfaces** whose releases come in any order and whose arrays are
  reallocated at every change of format;
* **the end of the stream**, which is an error to the decoder thread, a flush to
  the caller, and a case of its own in every decoder;
* **state kept from one picture, or one test, to the next**: the image and the
  cache that surfaces are copied through, the files of the last test, the path
  where the last file was found;
* **sums in 16-bit lanes**, which are right as long as they do not wrap.

### What makes each part correct

* H.264 decoder, running: every picture is delivered once, in output order; a
  buffer is never written while a node that shows it is valid, queued or shown;
  JM is in one thread at a time; the run returns; it reports success only when
  nothing is left.
* H.264 decoder, starting and stopping: success of `jm_init()` means that
  everything is open; `jm_finalize()` returns, outlives every thread and closes
  the end of the FIFO that the parser thread opened, wherever the start failed,
  and JM's end once `OpenDecoder()` has returned.
* VA-API decoder: a surface is handed out to one user at a time, no surface is
  lost, a buffer is refused only when all are in use, the surfaces of the last
  format are destroyed.
* Decoder core: one report line per picture, the header before the first one,
  the result of every step in the exit status.
* Image files: what is written can be read back; a truncated file is an error.
* GStreamer decoder: an error met in the streaming thread ends the main loop and
  the run fails; the stages that the options ask for form one line; the codec in
  the report is that of the decoder the pictures come from.
* Hashes: the blocked Adler-32 equals its definition; the hash of a picture
  depends on its visible pixels only, whichever decoder it comes from.
* Images: a copy stays within the image it goes to and the cache it goes
  through; a picture is refused only for what it is.
* Comparison tool: the output of a decoder and what `gen_ref_rawvideo` makes of
  it compare equal; a reference that was cut short is noticed.
* Codecs, tables: what one table calls a profile, the next one knows.
* Test driver: every configuration listed has one outcome, which is counted;
  a pass is earned by the decoder in this run and by nothing left behind.

## 2. Modules

| Module | What it is |
|---|---|
| `PictureStream` | abstract: pictures handed over in order, then one verdict |
| `JMDecoder` | the H.264 decoder between `jm_init()` and the end of `jm_finalize()` |
| `MCJMDecoder` | its instances for TLC |
| `JMDecoder_proofs` | theorems about it |
| `JMStartup` | `jm_init()`, both threads while they start, `jm_finalize()` |
| `MCJMStartup`, `JMStartup_proofs` | instances and theorems |
| `SurfacePool` | abstract: a pool of surfaces |
| `SurfaceQueue` | the surfaces of the VA-API decoder |
| `MCSurfaceQueue`, `SurfaceQueue_proofs` | instances and theorems |
| `GstDecoder` | the GStreamer decoder: the caller's main loop and the streaming thread |
| `GstPipeline` | its options, the elements and links they result in, and what decodebin plugs |
| `GstSession` | composes both: set-up and autoplugging before `GstDecoder`'s run |
| `MCGstDecoder`, `MCGstSession` | instances for TLC, of the threads alone and of the session |
| `GstSession_proofs` | theorems about `GstDecoder` and `GstSession` |
| `ImageFile` | operators: video formats, the cells of a Y4M file, what is read back from it |
| `DecoderCore` | a decoder tool from `main()` to its exit status, and `gen_ref_rawvideo` over its output |
| `CompareVideo` | `cmp_video` and `mvt_image_compare.c` over two files |
| `Toolchain` | composes `DecoderCore` and `CompareVideo` |
| `MCToolchain`, `Toolchain_proofs` | its instances for TLC, and theorems about it and about `DecoderCore` |
| `Images` | operators: component tables, layout, cropping, component addresses |
| `Adler32` | the three implementations of the hash, register by register |
| `Adler32_proofs` | theorems about it |
| `PicturePath` | composes `Images` and `Adler32`: from a surface to the hash in the report |
| `MCPicturePath`, `PicturePath_proofs` | instances and theorems |
| `Codecs` | operators: the tables of codecs and profiles of all decoders, and the choice of a VA profile |
| `RunTests` | `mvt_run` over the configurations that the other tools dump |
| `MCRunTests`, `RunTests_proofs` | instances and theorems |

`JMDecoder` implements `PictureStream`, `SurfaceQueue` implements
`SurfacePool`.  `JMStartup` and `JMDecoder` meet where `jm_init()` has returned
0: `InitSound` of the first is what `Init` of the second takes for granted, and
the first reduces what runs in between to three steps.

### JMDecoder

Caller (`mainPc`).  `call` is between two calls of `avcodec_decode_video2()` in
`decoder_run()`; `write` is the part of `jm_decode_packet()` that writes to the
FIFO, `loop` the head of its `do ... while` loop under the lock, `eoswait` and
`timedwait` the two waits in it, `flush` is inside `FinitDecoder()`, `client`
inside `handle_frame()`, `finalize` and `join` in `jm_finalize()`.

Decoder thread (`decPc`).  `top` is the head of the `for` loop, `poll` the call
of `poll()`, `decode` and `output` are inside `DecodeOneFrame()`, `submit` is
the locked section after it, `error` the call of `thread_context_set_error()`.

* *Steps.*  What a thread does while it holds the lock is one step: only
  `pthread_cond_wait()` lets go of the lock in between, and it ends a step here.
  The lock is therefore not a variable.  Writing one unit to the FIFO is a
  step; it is enabled when the FIFO has room, since `write()` blocks.  The FIFO
  is never read at end-of-file before the write end is closed.
* *Waking up.*  `woken` says that a broadcast came after the caller started to
  wait; `WakeEos(TRUE)` consumes it.  A spurious wake-up is `WakeEos(FALSE)`,
  under no fairness.  The 100 ms wait can always end, signalled or not.
* *Queues.*  `queue` is `decoder_pic_list`, `outList` is `output_pic_list`.
  A node is a picture number and a buffer.  `outList` and `jmFree` are sets,
  since the order in which JM reuses buffers is of no consequence.
* *JM* is external.  `JmRead` takes a unit from the FIFO, `JmDecode` completes a
  picture when the next one, or the end of the input, has been seen, `JmOutput`
  writes the next picture into a free buffer and marks its node valid, keeping
  the valid nodes at the front of its list, oldest first, so that the head of
  the list `DecodeOneFrame()` returns is the oldest.  When `HoldsBack`, JM keeps at least one picture until
  `FinitDecoder()`; without it JM may output everything before.  The last
  picture may come along with `DEC_EOS`.
* *`jm_release_frame()`* is part of `DecodeCall`: it runs first in every call.
  The build without reference-counted frame buffers is the one modelled; the
  other one gives the node back through a callback at the same place.
* *Left out.*  Pixel formats (`PopUnsupported` is the one rejected), the bytes
  of NAL units (`WriteFails` is one that does not fit its packet), the time
  stamps, a `poll()` with no delay that fails in the caller, failures of the
  lock and the condition.

### JMStartup

The two threads are functions of `Threads`.  The caller goes through `create`,
`load`, `store` for each thread, `test`, `wait` for each thread, `finish`,
`run`, and `finalize`, `join`, `close` for `jm_finalize()`.

* *Flags.*  `state |= THREAD_STATE_ACTIVE` is a load and a store, as is every
  update made by a thread under its lock: `LoadFlags`, `StoreFlags`.  The
  program points between the two, `StorePcs`, are where the thread holds its
  lock, and a locked reader (`TestState`, `Wake`, `TimeOut`) waits meanwhile.
  `jm_finalize()` reads the flags without the lock, and does so here.
* *`overlap`* is chosen once in `Init`.  The two unlocked updates are a data
  race, whose outcomes are all modelled; but a lost `ACTIVE` flag makes most of
  the other properties moot, so that they are stated for the runs where the
  thread gets to its first update after `jm_init()` stored `ACTIVE` (which in
  practice is nearly always).  `ActiveMeansCreated` is about the other runs.
* *The FIFO.*  `open()` of one end returns once the other end is being opened
  (`BothOpening`); `data` counts writes not yet read, at most `FifoCapacity`.
  `pipe` is `decoder->pipe`: `calloc()` leaves 0 there, the standard input,
  until `jm_init()` stores -1.  `fds` are the open descriptors: `"fifo"` is the
  writing end, `"jm"` the reading end, which JM opens inside `OpenDecoder()` and
  `CloseDecoder()` closes.  `jm_finalize()` calls that only when `jm_decoder` is
  set, which the decoder thread does after `OpenDecoder()`; a thread that fails
  or is cancelled before leaves the reading end open.  `opened` remembers that
  the call returned, and `NoDescriptorLeft` asks for JM's end only then.
* *Failures.*  With `Faults`, every call may fail.  A failed `open()` of the
  FIFO is compared with 0 instead of -1 and goes unnoticed until the write.
* *`jm_finalize()`* is called twice after a successful start, by
  `avcodec_close()` and by `decoder_finalize()`, once otherwise.
* *`errno`.*  `jm_init()` returns `AVERROR(errno)` when `pthread_create()`
  fails; `errno` is taken to be set by the calls it makes, as glibc's are.

### SurfaceQueue

`surfaces` is the part of `va_surfaces` that holds identities, `ring` is
`va_surfaces_queue`, an empty slot holds 0 for `VA_INVALID_ID`.  The sizes the
arrays were given by `realloc()` (`surfCap`, `queueCap`) are kept apart from the
counts (`numSurfaces`, `queueLength`), which never decrease.  `GetFormat` is
`get_format()` when `vaapi_init_decoder()` reaches the filled ring; the three
other actions are its ways to fail, in the order of the code, each with what was
already changed.  `Acquire`, `AcquireFails` and `Release` are the buffer
callbacks.  FFmpeg runs them in one thread (`thread_count = 1`) and gives every
surface back before it asks for a new format or closes the codec; both are
guards.  `reply` is what the last request was answered; with it the refinement of
`SurfacePool` says that a request is refused only when no surface is free.

* *At the end*, `Finalize` gives all `numSurfaces` elements to
  `vaDestroySurfaces()`.  The count is raised before anything is stored: when the
  queue cannot be reallocated, or `vaCreateSurfaces()` fails, it may cover
  elements that hold what `realloc()` or the driver left there.  Only when every
  counted element holds the identity of a surface (`Filled`) does the model say
  what the call destroys.  Otherwise (`Destroyable`) it destroys any of the
  surfaces that are alive, or none: the driver may give up at an identity it does
  not know, and a stray one may name any surface.  What the driver has written to
  the array when it fails is unknown as well (`GetFormatNoSurfaces`).
* `LatestDestroyed` is stated accordingly: for a decoder in service, and for one
  that failed with its array filled.

### GstDecoder

The caller's thread (`mainPc`) goes through `decoder_init()` (`init`),
`gst_element_set_state()` (`play`), `g_main_loop_run()` (`enter`, then `loop` at
the head of GLib's loop and `iterate` inside an iteration), the state change to
`NULL` (`stop`), the look at `app->error` (`check`) and `app_finalize()`.  The
streaming thread (`streamPc`) is between two calls of `on_handoff()` in `next`,
at `app_update_video_info()` and `app_update_codec_info()` in `caps`, and from
the mapping of the surface to the return of `mvt_decoder_handle_image()` in
`handle`.

* *`app_error()`* runs in either thread and takes no lock.  `g_clear_error()` is
  three steps (read `app->error`, free, reset), then the new `GError` is stored
  and the loop is quit; `errorPc` says where each thread stands.  A `GError`
  freed twice either aborts the process or is not noticed.
* *`raced`* is a history variable: both threads have been in `app_error()` at
  once.  Only then can a `GError` be freed twice or leak, which is why
  `ErrorOwnership` is stated for the other runs; `FailureReported`,
  `NoLateHandoff` and `Terminates` are stated for all.
* *The main loop.*  `is_running` is set by `g_main_loop_run()`, so that a
  `g_main_loop_quit()` before it is lost.  An iteration dispatches one message.
* *The bus* is a queue of `"eos"` and `"error"`; other messages change nothing.
  The state change to `NULL` waits for the streaming thread and flushes the bus.
* *External*: GLib, GStreamer, and that a pipeline that cannot play posts an
  error message.
* *Left out.*  The formats behind the caps, the pixels.

### GstPipeline and GstSession

`setup` follows the calls in order: `decoder_init_option()` for each argument
(`ParseOption`), the three fixed elements (`MakeElements`), the optional
conversion and the two optional scalings (`InitConvert`, `InitScale`), the sink,
the links and signals (`Connect`), the bus and the display.  Elements are
numbered as they are made; `links` are pairs of numbers; `postproc` and
`postprocHead` are `app->postprocbin` and `app->postprocbin_head`.  A stage is
an element with a capsfilter behind it, or a `vaapipostproc` that conversion and
first scaling share (`AppendVaapipostproc`).

* *Options* are stored before they are found bad, as in the code: an unknown
  format replaces a known one, and a size with a side of 0 an earlier size whose
  `is_valid` stays set.  `refused` remembers that one was, since
  `PipelineAsAsked` says nothing of such command lines.
* *Errors.*  `SetupFails` is every failure that `app_set_error_message()`
  reports; `SinkFails` the two returns that report nothing, after which
  `decoder_init()` dereferences a null `app->error`.
* *decodebin* (external) offers the factories that take the stream by rank;
  `Wanted` is `on_autoplug_select()`, `ElementAdded` is `on_element_added()`,
  `Makes` is `on_autoplug_query()`.  An element that was added may not work
  (`FactoryFails`): it is removed and the next one tried, but the callback has
  kept it in `app->vparse` or `app->vdecode`.  `vparse_name` is the set of
  parsers that it is a prefix of.
* *Assumed of the factories*: only video and image decoders make pictures and
  nothing else, and image parsers do not take what video parsers put out.
* `GstSession` lets set-up run while `mainPc` is `init`, and autoplugging in the
  streaming thread before the first hand-off; it waits for nothing in the main
  loop, which may be anywhere.  Every other step is `GstDecoder`'s.
  `app_update_codec_info()` returns early when there is no decoder
  (`CodecKnown`).

### ImageFile, DecoderCore, CompareVideo and Toolchain

A file is a sequence of cells: the header line, the `FRAME` line of a picture,
one cell for each byte of a sample.  Whatever the layout of a format in memory,
files and hashes have its samples component by component, so that two formats
differ only by chroma subsampling, number of components and depth
(`VideoFormatInfo`).  `Y4mFormats` is the table of `y4m_get_video_format()`: a
file says "4:2:2, 8 bits" for YUY2, UYVY and I422 alike, and is read back as
YUY2, with the same samples.  `Hash` is the sequence of samples that go into the
hash; collisions are not modelled.

`DecoderCore` is `main()`: `pc` is `init`, `run`, `dump` (after
`mvt_decoder_run()`), `free` (at the label `cleanup`), `end`.  `HandleImage` is
the whole of `mvt_decoder_handle_image()`, in three disjuncts: the image is
reported and written; it is RGB, which cannot be hashed or written; a write
fails, with any part of what was to be written in the file.

* *Classes.*  `"ffmpeg"` is every decoder over `mvt_decoder_ffmpeg.c`, whose run
  stops at the first image that is refused; `"gstreamer"` goes on, and learns
  the frame rate with the first picture rather than in `init()`, which makes no
  difference to what is written; `"rawvideo"` is `gen_ref_rawvideo`.
* *Two runs.*  After the first run the user runs `gen_ref_rawvideo` over its
  output file (`Rerun`), with any options.  `first` keeps what the properties
  compare with.
* *Loss.*  With `Faults`, what stdio still buffers is lost in `fclose()`, whose
  result is not looked at (`lost`).  The second run may so see any prefix of the
  file.  A line cut in the middle is not modelled, nor a report that fails.
* *Misplaced samples.*  Where a picture was cut, `y4m_read_image()` may look for
  a `FRAME` line among samples.  It reads words to the end of a line; depending
  on the bytes it finds a later `FRAME`, nothing, or an empty first word, for
  which `strcmp()` is passed a null pointer.
* *`cmp_video`.*  `StartComparing` opens two files, `CompareFrame` reads a
  picture from each and compares them.  `SquaredError` keeps of a PSNR whether
  it is infinite.  Images are comparable when `mvt_image_compare()` says so.
* *Comparison of outputs.*  `Toolchain` starts `cmp_video` over the output of
  the first run and that of the second, in either order, or over one of them and
  a file from elsewhere (`Videos`).
* *Left out.*  The command line but for the options it results in, the report
  and the config file when both go to the standard output, memory exhaustion.

### Images, Adler32 and PicturePath

`Images` translates the tables of `video_format.c` and the arithmetic of
`mvt_image_init()` and `mvt_image_init_from_subimage()`: an image is a record
with a pitch and an address for each plane.  `ComponentAddress` is where
`get_component_ptr()` finds a sample.

`Adler32` is one call of `mvt_hash_update()` after the other.  `kernel` is the
implementation chosen at start-up: `"c"`, `"swar"` (64-bit words with four
16-bit lanes for even and odd bytes) or `"ssse3"` (16 bytes at a time).
`Accumulate` adds one word to the lanes, modulo 2^16; `Reduce` folds the lanes
into `s1` and `s2`, which is where the code may still wrap (`LaneSum`), and
`Pack` stores them, 16 bits each, with the carry of an `s1` that has 17.
`ref` is a history variable: the sums of the definition, byte by byte, without
a modulus.  `Peel` runs the prefix up to the alignment without looking at the
length, as the code does; data that ends before it is what `narrow` records.

`PicturePath` follows one picture after the other through `stage`: `next`,
`image` (mapped and cropped, for hardware decoders), `convert`, `copy`, `hash`,
`update`.  A picture is a rectangle in a decoded frame whose memory is a
function of the address, so that a sample from a wrong place shows.  `own` is
the image that a surface is copied to, `memory` its bytes, `cache` the buffer of
`SSE_CopyFromNV12()` and `SSE_CopyFromI420()`.

* *The copy.*  `FillCache` moves as many rows as the cache holds, 16-byte blocks
  from an address rounded down; `DrainCache` copies or splits them.  `copies`
  are the planes still to be done.
* *The own image* is kept when its size is that of the new picture, whatever its
  format, as in the code.
* *Cropping* in software decoders is done by libavcodec before the picture is
  seen, in the two hardware decoders by `mvt_image_init_from_subimage()`;
  `dec_ffmpeg` derives the corner from the distance between `data[0]` and the
  surface (`CropRect`).
* *Refusals.*  A picture is refused because its format is unknown: to
  `gst_to_mvt_video_format()` in software (`GstFormats`), to `mvt_image_hash()`, or
  to `mvt_image_convert()`; because its crop is; because `vaDeriveImage()`,
  `va_map_image()` or the mapping of the buffer fails; or because there is no
  memory for its own image or for the row of gray chroma that the hash of a
  grayscale picture reads.  That row stays with the own image, which therefore
  needs it once (`grayRow`), and is needed for each picture that is hashed
  without a copy.  `denied` remembers which pictures found no mapping or no
  memory.
* *Conversions of libyuv* are one step, `ConvertByLibyuv`, that copies samples.
* *Memory that was not written.*  `posix_memalign()` clears nothing: a byte of the
  own image that no copy has reached reads as any byte of `Leftover`, each time it
  is read.
* *Rows that end before the alignment* read past the row.  What is there is not
  in the model: `hpc` becomes `"overrun"` and the behaviour ends.

### Codecs and RunTests

`Codecs` holds the tables as functions and the look-ups as the code does them:
first match, fall-through to "unknown".  An H.264 profile is a profile number
and constraint flags.  `ParseCodecCaps` is GStreamer's way to a profile,
`FFmpegProfile` is FFmpeg's, and `ChosenProfile` is what `get_format()` of the
VA-API decoder ends with.

`RunTests` is the whole of `mvt_run`: `pc` is `args` between two words of the
command line, `list` while `find` prints, `exclude`, `check` for the five
reasons to skip, `decode` and `diff`.  The configuration files are those the
other tools dump (`Dumped`), or one that was cut short, or one written by hand.

* *The directory of a test* (`outdir`) is kept from one test to the next and,
  when the user names one, from one run to the next, as in the script.
* *A decoder* succeeds with the pictures of its file, or fails having written a
  part of its report, or nothing.
* *Early codecs.*  Some FFmpeg decoders call `get_format()` while
  `avcodec_open2()` runs, before the base decoder knows its codec; which do is
  external (`EarlyCodecs`).
* *Left out.*  The options, which `Init` leaves free as far as they matter;
  colours and wording.

## 3. Runs

| Run | Instance | Shows |
|---|---|---|
| `jm_clean` | 3 pictures in 4 packets, 3 buffers, FIFO of 1 unit, no error, `HoldsBack` | every picture delivered, success, termination, `PictureStream` implemented |
| `jm_errors` | the same stream, FIFO of 7, an error possible at every call, JM free to output early | buffers never shared or overwritten, order, JM in one thread, termination |
| `jm_last_picture` | 2 pictures, 2 buffers, FIFO of 2, no error, not `HoldsBack` | finding 1 |
| `jm_startup` | FIFO of 1 write, a failure possible at every call, with and without overlap | start and stop are safe and return; the FIFO is closed, at JM's end once `OpenDecoder()` has returned |
| `jm_active_lost` | FIFO of 2, no failure, overlap | finding 2 |
| `va_ring` | 5 then 5 or 6 surfaces, failures | the ring is a pool, which refuses only when it is empty; what the last format created is destroyed, unless a format failed with its array grown and not filled |
| `va_shrink` | 7 then 6 surfaces | finding 3 |
| `gst_run` | sessions with 9 command lines, with and without `vaapi`, 9 element factories of which any may fail; 4 pictures whose caps change and change back, every failure in either thread | the pipeline and the decoder are those asked for, errors decide the verdict, no picture is handled too late, the run ends |
| `gst_dropped` | the same stream, only failures that call no `app_error()` | finding 4 |
| `core_tool` | 2 pictures of one size, or 3 whose size changes and changes back; 7 formats, all options, every failure; `cmp_video` over the outputs | report and file well formed, success complete, second run repeats the first, the outputs compare equal |
| `picture` | streams of 1 to 4 pictures that change size or format, crops, packed and planar formats, rows shorter than the alignment; 4 decoders, 3 implementations of the hash, unwritten memory of 0 or 255, memory exhaustion, mappings that fail | the hash reported is that of the visible samples, the rows copied fit, a picture is refused only for what it is, a failed mapping or want of memory |
| `tests` | suites of 3 tests out of 9 videos, 2 command lines, exclusions, 2 devices, 2 drivers, a fresh and a reused output directory | every test counted once, a pass earned, a file found, a profile found |

*Bounds.*  Three pictures are enough for one to be shown, one queued and one in
JM at a time, and for a buffer to be used twice; a packet without a picture
leaves the caller's wait with nothing to find.  A FIFO of one unit makes every
write block; in `jm_errors` it has room for the whole stream (4 packets, twice
the headers, the end of stream) because of hazard `src/gen_ref_h264_avc.c:226`:
after an error of the decoder thread nobody reads the FIFO, its reading end
stays open, and a blocked caller stays blocked.  `Terminates` fails in
`jm_errors` with a smaller FIFO.  A real FIFO holds 64 KiB, so that a long
enough stream gets there.  In `jm_startup` the two writes of the parser thread
find room for one.  In `va_ring`, `Scratch` is the code's 4 and `MaxSurface`,
which bounds the number of surfaces ever created, lets a second format follow
the first.

In `gst_run` the
caps go back to earlier ones after an update that may have failed; the command
lines have every stage, each alone and with the others in another order than
that of the pipeline, a value given twice, and each kind of refused option; two
parsers and three decoders take the stream, so that one can fail and another be
plugged, and two of the decoders are bins, one with nothing inside.  In
`core_tool` pictures are two pixels or one, the least that has an odd width and
two sizes; the formats are one of every kind that a file or a hash tells apart
(4:2:0 with 8 and with 10 bits, packed 4:2:2, 4:4:4 with and without alpha,
grayscale, RGB); every picture of a stream has one format; two pictures are
enough for one to fail after one was counted, and before; a third one gives a
reader that stops inside misplaced samples something to skip.  `cmp_video` is
run after runs that succeeded and wrote nothing but their output (`OutputOnly`):
reports and config files make no other outputs, and a reference cut short comes
from the first run of a `rawvideo` reader over a prefix.

In `picture` a row of 35 samples needs a prefix, words and a tail in every
implementation; 400 bytes of 255 fill 23 words of the ssse3 block and start
another; `CacheMin` is 64 where the code has 4096, so that pictures of five rows
need the cache more than once and a wider picture a larger one.  The formats are
one of every component layout.  Two values of `Leftover` are enough for one of
them to be wrong wherever one is read.  In `tests` three tests are enough for the first
to leave something behind for the second, and the second for the third; two of
the videos have one name, one is missing, one lies beside the directories, one
is too large for the hardware, one has a codec no table knows.

*Fairness.*  Each thread is weakly fair: the scheduler runs it.  JM is weakly
fair separately since it runs in either thread.  Errors and spurious wake-ups
are not fair: nothing has to fail.  In `JMStartup`, `TimeOut` is strongly fair
because the deadline is computed once and a wake-up does not extend it, and
`CancelThread` is strongly fair because a thread with a pending cancellation
ends at the first cancellation point it reaches, and its loop keeps reaching
`poll()`.  In `GstDecoder` and `GstSession` the caller's thread and the
streaming thread are weakly fair, an element need not fail.  No fairness is assumed of `SurfaceQueue` and
of the sequential tools (`DecoderCore`, `PicturePath`, `RunTests`,
`CompareVideo`), which promise nothing about time.

*Deadlock* is checked in every run; `Terminated` is the intended end.

## 4. Findings

1. **The last picture can be lost** (`jm_last_picture`).  The decoder thread
   queues the picture returned along with `DEC_EOS` and then sets `ERROR`.  If
   the caller tested the queue before, it wakes up, sees `ERROR` with `EOF`, and
   flushes; when JM has no further picture, `jm_flush_pictures()` returns 0 and
   the loop ends with the picture still queued.  `decoder_run()` takes "no
   frame" for the end and reports success.
2. **`ACTIVE` can be erased** (`jm_active_lost`).  `jm_init()` sets it without
   the lock, in a thread that already runs.  `jm_finalize()` then neither
   cancels nor joins that thread and destroys its lock.
3. **The counts can exceed the arrays** (`va_shrink`): `realloc()` shrinks the
   arrays when a second format needs fewer surfaces, the counts stay.
4. **The GStreamer decoder drops pictures and succeeds** (`gst_dropped`).  When
   the caps are not supported or `mvt_decoder_handle_image()` refuses the image,
   `on_handoff()` returns `FALSE` to a signal that ignores it; the picture is
   missing from the report, and the exit status is 0.

Seen while modelling, with no run of their own:

* H.264 decoder: `jm_finalize()` closes the standard input when the file could
  not be opened, since `decoder->pipe` is still 0.  It leaves JM's end of the FIFO
  open when the decoder thread failed, or was cancelled by the time limit, inside
  `OpenDecoder()`: `jm_decoder` is not set yet, and `CloseDecoder()` is skipped.
* VA-API decoder: the surfaces of an earlier format are never destroyed when a
  second format is set up; `LatestDestroyed` is stated for the last one.  After a
  format that failed between the `realloc()` of the array and the creation of its
  surfaces, `vaDestroySurfaces()` is given elements that nobody has stored, and
  the surfaces of the array may outlive the decoder.  With a
  codec that asks for its format while it is opened (VC-1, WMV3), `get_format()`
  runs before the codec is known and finds no profile; hence `EarlyCodecs`.
* Image files: `mvt_image_file_write_image()` does not compare the image with
  the header, as `mvt_image_file_read_image()` does.  `gen_ref_rawvideo` over a
  stream whose size changed reports other pictures, or fewer, and succeeds;
  hence `OneSize` in `SameReport` and `SameFile`.  8-bit 4:4:4 images are
  written to files that cannot be read again.  An empty input makes
  `y4m_read_header()` compare a null string (`InitCrashes`).
* GStreamer decoder: the result of `decoder_init_option()` is ignored, and what
  it refuses it has partly stored: a second `vscale` of which a side is 0, or a
  second `vconvert` with an unknown name, silently undoes the first.  A parser
  that did not work stays in `app->vparse`, so that no other parser is tried.
  When the plugged decoder is a bin without a decoder inside, the first picture
  after each change of the caps is dropped.
* Decoder core: `mvt_decoder_dump_config()` closes a null file when the config
  file cannot be created, and its result is ignored (`DumpCrashes`).
* Pictures: the own image is kept when a picture has the size of the one before
  in another format, which then ends the process or is refused
  (`RefusedForAReason`).  The ssse3 hash of a row that ends before the first
  aligned byte reads past the row.  In software the GStreamer decoder refuses
  grayscale pictures, which its table of formats lacks, although they can be
  hashed.  `image_copy_internal()` copies every plane
  to plane 0, so that the hash of a planar surface of 4:2:2 or 4:4:4 is not that
  of the picture (`PictureHash` is about the formats that are `Supported`).
* `cmp_video` succeeds when the source is shorter than the reference.  The
  branch for a reference with alpha is never reached.
  `calc_se()` squares a difference of 16-bit samples in a signed 32-bit integer;
  what wraps is never 0, so that pictures that differ are still told apart.
* Test driver: `FILE_HASH` of a configuration is never compared with the file.
  `progressive-high`, which only GStreamer's tables produce, is a profile
  `mvt_run` does not know.  A word that is neither a file nor a directory is
  ignored.  The exit status says nothing about the tests.  When a configuration
  has lost its reference, the `test.ref` of an earlier test is compared with
  (`PassEarned` excepts that case).  `--inputdir` is what the help says;
  `--input` is taken as well.

## 5. Proofs

All proofs hold for every value of the constants, under the named assumptions of
each module (that a stream is a sequence of packets, that capacities are
positive naturals, that switches are Booleans).  Those that say more are
`StreamAssumption` of `PicturePath` (the visible part of a picture is not empty
and lies inside the picture, and a row is not longer than the pitch) and `RunTestsAssumption` (a suite's files and
directories are a file system: the directory "." holds the others, every file
has a directory and contents; the devices are those the scripts of the
repository know).

**JMDecoder_proofs.**  `TypeInv` adds to `TypeOK` that what `SetError` stores is
an error: otherwise `errorValue` could hold `DEC_EOS`.  `JmNeverShared` needs
`ThreadInv`: the ERROR flag, once set, means the thread has exited, so that a
caller that saw it is alone with JM, and so is one that joined the thread.
`PicturesStayIntact` and
`BuffersHaveOneOwner` follow from `BufferInv`, about the *line* of pictures
`Line == queue \o jmValid`.  Its parts say that the buffers in the line are
distinct and hold what their nodes say (`LineKept`), that the shown node is in
no way part of the line (`FrameKept`), and that JM's free buffers and those on
their way back are apart from both (`PoolKept`).  The line is what makes the
argument short: queueing a picture moves it along the line and changes nothing.
`PicturesInOrder` needs numbers on top: the pictures in the line are the latest
of those output, one after the other (`LineOrder`), and what was delivered, what
is being shown and what is in the line add up to what was output (`CountInv`)
as long as the run has not failed.

`NothingIsLost` follows the packets (`LossInv`).  Each picture written is in the
FIFO, inside JM or output (`FlowInv`, a count); `DEC_EOS` is seen only when the
FIFO is empty and closed and JM has nothing left to decode (`CloseInv`, `EofInv`
with `Drained`); a flush then meets a decoder thread that is gone (`FlushInv`).
The step that needs the hypothesis is `HeldInv`: once JM is empty the caller has
a picture to count or has emptied the queue, because JM kept one back for the
flush.  Without `HoldsBack` that is false, and the run `jm_last_picture` is its
counterexample.  `CleanRunsSucceed` (`CleanInv`) needs no such hypothesis.
`DecoderKeepsItsPromise` is the refinement: with the invariants above, each step
is a delivery of the next picture, the verdict, or nothing for `PictureStream`.

**JMStartup_proofs.**  `ContextsOutliveThreads` rests on `ActiveInv`: without
overlap a living thread is marked `ACTIVE` unless `jm_init()` is between
creating it and storing the flag, and whatever a thread is about to store
contains the flag.  `FifoIsClosed` adds that the descriptor is the one in
`decoder->pipe` and that nobody opens it once the parser thread is joined
(`DescriptorInv`), and that JM's end, when it is open and `OpenDecoder()` has
returned, is that of a decoder in `jm_decoder` until the last step of
`jm_finalize()` (`JmEndInv`).  `SuccessIsSound` follows the `INIT` flags back to what was
open when they were set (`ParserInv`, `DecoderInv`), and `TailsBeforePictures`
that pictures need packets, and packets a finished `jm_init()`.

**SurfaceQueue_proofs.**  `RingConsistent` and `OnePlace` are inductive together
with the types, two facts about the counts (`Sizes`) and the finiteness of
`inUse`: the empty slots are exactly those from the tail to the head, so taking
at the head and storing at the tail keep them one run.  `ReleaseAlwaysSucceeds`,
`AcquireFailureIsExhaustion`, `NoSurfaceLost` (by counting: distinct surfaces in
the ring, as many as are missing in use) and `RingImplementsPool` follow.
That a request is refused only when no slot holds a surface (`FailureMeansEmpty`) is
part of the refinement.
`OnlyEarlierSurfacesLeft` is about the array instead (`ArrayInv`): whatever
surface is alive is in the array, or older than all that are in it, also after a
`get_format()` that failed half-way; and a decoder in service has every counted
element filled.  What `Finalize` destroys is then certain, and is what the
array holds.  That the array is not shorter than the count is true for
`~Shrinks` only, which the theorem therefore assumes.

**GstSession_proofs, the two threads.**  `HandoffsEnd` is `PlaceInv`: `app_error()` runs in the
bus handler or in `on_handoff()` and nowhere else, and the streaming thread
exists between the two state changes.  `ErrorsAreReported` adds that an error,
once created, is in `app->error` or about to be replaced by a thread that will
store its own (`KeptInv`; this holds even when both threads race through
`g_clear_error()`, since each stores after it resets), that the loop is only
quit by an error or after the whole stream (`QuitInv`), and that the verdict was
taken from both (`VerdictInv`).  `ErrorsAreOwned` is about the `GError`s that are
allocated (`OwnerInv`): as long as the two threads have not been in `app_error()`
at once (`OneReporter`, or `raced` has been set), the only one is that of
`app->error`, except in the two places of `app_error()` where the old one has
been freed or the new one not yet stored (`Replacing`).

**GstSession_proofs, a whole run.**  `SessionImplementsDecoder` maps each step of a session
to a step of the two threads or to a stutter; what is proved of `GstDecoder`
therefore holds of sessions (`SessionReportsErrors`, `SessionHandoffsEnd`, `SessionOwnsErrors`), for
all options and all elements.  `PlugsWhatIsAsked` needs an invariant of
decodebin's callbacks (`PlugInv`): the video parser in use is the only one
plugged, is the one in `app->vparse`, and what it puts out, within the caps asked
for, is the stream until a decoder takes it; a parser is wanted only while there
is none (`ParserIsFirst`), also after others failed.  That no step of set-up
comes between is `StartInv` with `PlaceInv`.

`PipelineIsAsAsked` is about the elements and links that the options result in,
for every command line.  Its invariant has two halves.  `StoredInv`: unless an
option was refused, what is stored is the value of the last option of its kind
seen so far (`ConvertInv`, `ScaleInv`).  `BuiltInv`: the chain is in the order in
which its elements were made, from the fourth on, whatever was left out
(`LinksInv`); the `vaapipostproc` of a conversion is the only element there, has
a format and no size yet, when the first scaling comes to share it
(`VaapipostprocInv`); and what the elements ask for is what the stages passed so
far had to ask for (`RequestsInv`).  `Walk` and `Present` are recursive: a lemma
by hand (`Induction`) says that a set of natural numbers with 0 and all successors
has them all, from which follow that the recursion of `Present` has one solution
(`UpToExists`, `UpToIsOne`), what one more element adds to it (`PresentAppend`),
and that following the links from the head gives the fourth element, the fifth,
and so on to the sink (`WalkIsLine`).

**Toolchain_proofs, a decoder tool.**  One invariant, `IInv`, carries three theorems.
`OneHeader` is the one that needs it: a second attempt to write the header is
harmless because it is made only before anything was written (`FileInv`: no
frame is counted and no byte is in the file unless the headers are ready), and
what the second run copies from the first one's file is never a header, because
it reads behind the header and the header was first (`InputInv`).  This is
where the number of bytes of a picture, for any format and size, has to be a
natural number (`NumBytesNat`).  `ReportsAreInOrder` relates the length of the
report to `imageIndex`.  `ConfigIsCovering` adds `SizeInv`: the maximum is that
of the pictures decoded so far (`Bounds`), and `NothingIsMissing` that a tool
which stops at the first picture refused has counted, reported and written all
before it (`CompleteInv`).

`ReportIsReproduced` and `FileIsReproduced` compare what two runs leave behind,
and rest on a closed form instead of an induction over the file: cell i of the
file is `Cell(i)` (the header, a `FRAME` line, or byte k of picture n) and line i
of the report is `Entry(i)`.  `LayoutInv` says that both outputs have that form
(`OutInv`), that what the first run has left behind has it (`SourceInv`), and
that the reader of the second stands in front of a `FRAME` line at 2 + n *
`Stride` after n pictures, ahead of its own outputs (`ReadInv`), so that it never
takes a byte for a tag (`NeverMisplaced`).  The formats that a Y4M header does
not tell apart (I420 and NV12, say) have pictures of the same bytes, which the
proof needs as much as the program does.  Attempting it showed that two
branches of `Colorspace` overlapped; they are apart now.

**Toolchain_proofs, the tools together.**  `ToolsImplementDecoder`: a behaviour of
`Toolchain` is one of `DecoderCore`, so that what is proved of it holds where the
files are compared too (`ToolsKeepTheirPromises`).  `VideosAreTheSame` is `SameVideo`:
`cmp_video` finds no difference between the file of the first run and that of the
second, and succeeds exactly when its reference has at least the whole pictures of
its source.  Both files are `Regular`: beginnings of the same cells, possibly cut
short inside a picture, so that whole pictures can be counted by where they start,
at 2 + n * `Stride` (`PicturesOfFile`).  `CompareInv` says that both readers stand
behind the same number of pictures, where the samples are those of the same
picture (`SamplesBehindFrame`, `SamePicture`); whichever reader meets its end first
belongs to the file with fewer pictures (`EndsAfter`, `CompareEndsStep`).

**Adler32_proofs.**  `HInv` has five parts: the types; where the call stands in
the buffer (`BufferInv`: bytes done, in the block, and left add up); a bound on
the lanes in the number of words done (`LanesInv`: the first lanes hold at most
255 per word, the second at most 255 * w * (w - 1) / 2, which 23 words keep under
65536); that `s1` and `s2` are small where the code takes no remainder
(`ReducedInv`); and that what the registers stand for is congruent to the
definition (`AgreeInv`).  The last one says that at any moment `s1` plus the
lanes, and `s2` plus the words still due times `s1` plus the weighted lanes,
equal the reference sums modulo 65521.  `LanesNeverOverflow` is what lets the
modulus 2^16 be dropped; the theorem `EveryKernelIsAdler32` is about all three
implementations at once, for every buffer and every alignment.

`Follows` relates the hash to a message that comes in several calls: what the
registers stand for is congruent to the sums over a prefix of the message
(`Prefix`), and what is left of the buffer is what comes next in it.  `Prefix` is
the definition's own fold.  That a sum over a set with one more element is the sum
and that element (`SumStep`) is proved from the library's definition of the
fold: its recursion has a solution (`SumExists`), and any element may be taken
out first (`SumWithout`), both by induction over the cardinality.  `Induction`
itself is a lemma: were b missing, the members up to b would be as many as those
of them that are not 0.

**PicturePath_proofs.**  `CopiesAlwaysFit` is `FitInv`.  The copy cache belongs to
the own image and is freed with it (`CacheInv`), so its size is at least a row of
luma rounded up to 16; the longest row that a copy needs, that of two chroma
planes split at once, is no longer (`RowFits`), nor are the bytes fetched up to
an aligned address when the row is shorter than those (`FetchFits`).  A band
therefore has at least one row, its rows fit (`BandFits`), and `CopiesInv` keeps
the rows done inside the plane.  What is written is in a plane because a plane
of `mvt_image_new()` has room for every sample (`PlaneRoom`, `SampleInPlane`).
`OwnInv` is where the size of the image comes from: it was kept because it is
that of the picture, or made with it.

`RefusalsAreJustified` adds where the own image comes from (`HistoryInv`): it was
made for some picture m, and every picture since that was looked at had its
size (`LookedAt`: mapped and cropped).  So the chroma that `mvt_image_convert_full()` finds different, and exits
for, is that of an earlier picture; and whatever the image was made for,
`mvt_image_convert()` knows the way from each supported format of that chroma.
Only pictures that were taken have failed to be mapped, and none that got as far as
its own image (`MappedInv`); since `denied` only grows (`NextDenied`), what was said
of earlier pictures stays true (`SameLook`).
The property was too strong before: it asked *all* pictures since m to have the
size.  The proof could not account for a picture whose crop is refused, which
never reaches the image and may have any size; TLC then found such a stream
(`<<Planes3, OddCorner, Gray>>`, now in the run), and the property says
`LookedAt`.

`HashesArePictures` is `PictureHash`, from the surface to the report, and follows
the bytes.  The cache holds those of the rows fetched (`HoldInv`); what is drained
or converted comes to the place of its sample and to that of no other
(`PlanesApart`, `SamplesApart`), so that the rows done hold the samples of the
picture (`MovedInv`) and, when all planes are, the whole own image does
(`ArrivedInv`).  Hence no leftover is ever hashed for a supported format, which a
model that clears memory could not tell.  The calls of `mvt_hash_update()` are
given the samples shown, in their order and each once: they *spell* the picture
(`ComponentSpelled`, `GraySpelled`, `UpdatesSpell`).  Under `FeedInv` the hash
follows that message from the start of one call to the next, inside a call step by
step (`StepFollows` of `Adler32_proofs`), and at the report it has all of it.  A
surface without a pitch as long as its rows has no such reading, which is why
the assumption was added; and the attempt for 4:2:2 surfaces showed what
`image_copy_internal()` does with them (section 4; `Planes422` of the run).

**RunTests_proofs.**  `SummaryAddsUp` takes three invariants: the tests logged
have a result but for the one that runs (`LogInv`), the counters and
`summary.txt` are those of the log (`CountInv`), and for each test the times it
was listed so far are the times it was done, is being done or is still to be
printed by `find` (`ListInv`, where `found` is what `find` has found and not
printed).  `PassesAreEarned` needs that the reference in a test's
directory is its own or has been left there (`ReferenceInv`),
`AcceptedTestsCanRun` that the decoder runs for an accepted test only
(`AcceptedInv`) and the tables themselves, which the provers go through codec by
codec: the theorem is about every suite of tests, not that of the run.

The type invariants of `JMDecoder`, `JMStartup`, `SurfaceQueue`, `GstDecoder`
and `DecoderCore` are theorems and not checked by a run of their own; that of
`RunTests` is both.

**Only model-checked.**  Liveness (`Terminates`, `FinalizeReturns`): it rests
on fairness, which is outside what these proofs cover.  The four findings, which
are counterexamples.  Every other property of a run is a theorem.

## 6. Plan

In the order of what matters most:

1. done: `JMDecoder`, `SurfaceQueue`, `JMStartup`, `GstDecoder` with
   `GstPipeline` and `GstSession`, `DecoderCore`
   with `ImageFile`, and their proofs; `Adler32` and its proofs; `Images` with
   `PicturePath`; `CompareVideo` with `Toolchain`; `Codecs` with `RunTests`;
2. done: `NothingLost` and `ImplementsPictureStream` under `HoldsBack`,
   `ErrorOwnership`, `SameReport` and `SameFile`, the properties of `RunTests`,
   `CopyFits` and `RefusedForAReason`; `SameVideo` and `PipelineAsAsked`, with
   induction over the natural numbers as a lemma where they recurse;
   `PictureHash`, which joins `Images`, the copy and `Adler32`;
3. the set-up around the cores: the display shared by the tools and its count.

## 7. Not modelled

* The build system and packaging.
* Messages and string helpers, which only format; `mvt_fatal_error()` is the
  exit it is.
* MD5, which libavutil computes, and the choice of an implementation of Adler-32
  by the flags of the CPU: any implementation may be chosen.
* The conversions of libyuv, one step of `PicturePath`.
* The VA utilities (`va_utils.c`, `va_image_utils.c`) and `mvt_display.c`: calls
  into libva whose results are modelled where they are used, as failures.
* The parsing of command lines, in C and in `mvt_run`: the options are free, but
  for those of the GStreamer decoder.
* Registration with FFmpeg, probing and opening of files, each one step that may
  fail.  What GStreamer's elements do with pictures, and the context messages
  that hand the display to them.
* Levels, and the tables of codecs without a VA profile, which nothing here
  depends on.

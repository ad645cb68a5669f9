----------------------------- MODULE GstPipeline -----------------------------
(***************************************************************************)
(* The pipeline of dec_gstreamer.c: what the options make of it, how its   *)
(* elements are created and linked, and which parser and decoder decodebin *)
(* plugs into it when it asks on_autoplug_select().                        *)
(*                                                                         *)
(* External: GStreamer's elements, bins and links, and decodebin, which    *)
(* tries the factories that take a stream in the order of their ranks and  *)
(* removes an element that does not work.                                  *)
(***************************************************************************)
EXTENDS Naturals, Sequences, FiniteSets, SequencesExt

CONSTANTS
  OptionLists,  \* sequences of arguments of -o: [key, value]
  Factories,    \* the element factories, by rank
  SetupErrors   \* a call of GStreamer or of the display may fail

ElementFactories == {Factories[i] : i \in DOMAIN Factories}

IsVideoParser(f) == f.kind = "parser" /\ f.media \in {"video", "image"}

IsVideoDecoder(f) == f.kind = "decoder" /\ f.media \in {"video", "image"}

(* Pictures come out of decoders and nothing else does; what a video       *)
(* parser puts out is nothing for an image parser.                         *)
ASSUME GstPipelineAssumption ==
  /\ SetupErrors \in BOOLEAN
  /\ Factories \in Seq(ElementFactories)
  /\ \A f \in ElementFactories :
       /\ f.kind \in {"parser", "decoder"} /\ f.media \in {"video", "image", "audio"}
       /\ f.name # "none"
       /\ "raw" \in f.makes => IsVideoDecoder(f)
       /\ IsVideoDecoder(f) => f.makes = {"raw"}
  /\ \A f, g \in ElementFactories :
       /\ IsVideoParser(f) /\ f.media = "video"
       /\ IsVideoParser(g) /\ g.media = "image"
       => f.makes \cap g.takes = {}

(* The number of a scaler is what the digits behind "vscale" say, 0 if     *)
(* there are none.                                                         *)
ASSUME OptionsAssumption ==
  \A list \in OptionLists :
    /\ list \in Seq(Range(list))
    /\ \A option \in Range(list) : option.key = "vscale" => option.number \in Nat

VARIABLES
  hwaccel,      \* options->hwaccel
  arguments,    \* the arguments of -o
  parsed,       \* how many of them decoder_init_option() has seen
  refused,      \* history: it has refused one
  vconvert,     \* vconvert_options.format
  vscale,       \* vscale_options
  vparseName,   \* vparse_name, as the parsers it is a prefix of
  vparseFilter, \* vparse_capsfilter
  setup,        \* the step of app_init_pipeline() and its callers
  elements,     \* the elements made, by number
  links,        \* pairs of them
  postproc,     \* postprocbin, 0 for none
  postprocHead, \* postprocbin_head, 0 for none
  vapostproc,   \* the numbers of the vaapipostproc elements
  vapostprocMask,
  stream,       \* the stream that decodebin has to continue
  offers,       \* the factories it has not tried for it
  plugged,      \* the elements it has plugged
  vparse,       \* app->vparse
  vdecode       \* app->vdecode

optionVars   == <<parsed, refused, vconvert, vscale, vparseName, vparseFilter>>
chainVars    == <<elements, links, postproc, postprocHead, vapostproc,
                  vapostprocMask>>
pluggedVars  == <<stream, offers, plugged, vparse, vdecode>>
pipelineVars == <<hwaccel, arguments, optionVars, setup, chainVars, pluggedVars>>

MaxVppChain == 2

Scalers == 0..MaxVppChain - 1

NoSize == [width |-> 0, height |-> 0]

PipelineInit ==
  /\ hwaccel \in {"none", "vaapi"} /\ arguments \in OptionLists
  /\ parsed = 0 /\ refused = FALSE
  /\ vconvert = "none"
  /\ vscale = [n \in Scalers |-> [size |-> NoSize, valid |-> FALSE]]
  /\ vparseName = {} /\ vparseFilter = {}
  /\ setup = "options"
  /\ elements = <<>> /\ links = {}
  /\ postproc = 0 /\ postprocHead = 0
  /\ vapostproc = [n \in Scalers |-> 0] /\ vapostprocMask = {}
  /\ stream = "encoded" /\ offers = Factories /\ plugged = <<>>
  /\ vparse = "none" /\ vdecode = "none"

-----------------------------------------------------------------------------
(* decoder_init_option(), whose result mvt_decoder_init_options() ignores  *)

GstVideoFormats ==
  {"I420", "I422", "I444", "YV12", "NV12", "YUY2", "UYVY", "AYUV", "I420P10",
   "I422P10", "I444P10"}

(* vscale and vscale1 are the first of the chain.                          *)
Scaler(number) == IF number > 0 THEN number - 1 ELSE 0

(* video_format_from_name() has been stored when the name turns out to be  *)
(* unknown; a size has been stored when one of its sides turns out to be 0.*)
ConvertOption(format) ==
  /\ vconvert' = format
  /\ refused' = (refused \/ format = "none")
  /\ UNCHANGED <<vscale, vparseName, vparseFilter>>

IsSize(value) == DOMAIN value = {"width", "height"}

ScaleOption(number, value) ==
  LET n == Scaler(number)
      ok == n < MaxVppChain /\ IsSize(value) /\ value.width # 0 /\ value.height # 0
  IN  /\ vscale' = IF n < MaxVppChain /\ IsSize(value)
                     THEN [vscale EXCEPT ![n].size = value,
                                         ![n].valid = @ \/ ok]
                     ELSE vscale
      /\ refused' = (refused \/ ~ok)
      /\ UNCHANGED <<vconvert, vparseName, vparseFilter>>

ParseOption ==
  /\ setup = "options" /\ parsed < Len(arguments)
  /\ parsed' = parsed + 1
  /\ LET option == arguments[parsed + 1]
     IN  \/ option.key = "vconvert" /\ ConvertOption(option.value)
         \/ option.key = "vscale" /\ ScaleOption(option.number, option.value)
         \/ /\ option.key = "vparse" /\ vparseName' = option.value
            /\ UNCHANGED <<refused, vconvert, vscale, vparseFilter>>
         \/ /\ option.key = "vparse_capsfilter" /\ vparseFilter' = option.value
            /\ UNCHANGED <<refused, vconvert, vscale, vparseName>>
         \/ /\ option.key = "unknown" /\ refused' = TRUE
            /\ UNCHANGED <<vconvert, vscale, vparseName, vparseFilter>>
  /\ UNCHANGED <<hwaccel, arguments, setup, chainVars, pluggedVars>>

-----------------------------------------------------------------------------
(* app_init_pipeline()                                                     *)

Element(factory) == [factory |-> factory, format |-> "none", size |-> NoSize]

(* g_object_set() of a format, a size or both.                             *)
Asked(e, format, size) ==
  [e EXCEPT !.format = IF format = "none" THEN @ ELSE format,
            !.size = IF size = NoSize THEN @ ELSE size]

Source == 1
Decodebin == 2
Vsink == 3

(* Elements follow each other from the end of the chain on; the first one  *)
(* of the chain is its head.                                               *)
Linked(from, to) == IF from = 0 THEN {} ELSE {<<from, to>>}

HeadIs(first) == postprocHead' = IF postprocHead = 0 THEN first ELSE postprocHead

(* An element and a capsfilter that asks it for something.                 *)
AppendFiltered(factory, format, size) ==
  LET first == Len(elements) + 1
      last  == Len(elements) + 2
  IN  /\ elements' = elements \o <<Element(factory),
                                   Asked(Element("capsfilter"), format, size)>>
      /\ links' = links \cup Linked(postproc, first) \cup {<<first, last>>}
      /\ postproc' = last
      /\ HeadIs(first)
      /\ UNCHANGED <<vapostproc, vapostprocMask>>

(* The element is added a second time: a mistake.                          *)
NeverAdded(n) == FALSE

IsAdded(n) == n \in vapostprocMask

(* app_init_postprocbin_for_vaapipostproc(): the element is made and added *)
(* once, and asked for more the second time.                               *)
AppendVaapipostproc(n, format, size) ==
  LET e == IF vapostproc[n] # 0 THEN vapostproc[n] ELSE Len(elements) + 1
  IN  /\ elements' = IF vapostproc[n] # 0
                       THEN [elements EXCEPT ![e] = Asked(@, format, size)]
                       ELSE Append(elements,
                                   Asked(Element("vaapipostproc"), format, size))
      /\ vapostproc' = [vapostproc EXCEPT ![n] = e]
      /\ IF IsAdded(n)
           THEN UNCHANGED <<links, postproc, postprocHead, vapostprocMask>>
           ELSE /\ links' = links \cup Linked(postproc, e)
                /\ postproc' = e
                /\ HeadIs(e)
                /\ vapostprocMask' = vapostprocMask \cup {n}

(* filesrc, decodebin and fakesink are made.                               *)
MakeElements ==
  /\ setup = "options" /\ parsed = Len(arguments) /\ setup' = "convert"
  /\ elements' = <<Element("filesrc"), Element("decodebin"), Element("fakesink")>>
  /\ UNCHANGED <<links, postproc, postprocHead, vapostproc, vapostprocMask>>
  /\ UNCHANGED <<hwaccel, arguments, optionVars, pluggedVars>>

InitConvert ==
  /\ setup = "convert" /\ setup' = "scale0"
  /\ \/ vconvert = "none" /\ UNCHANGED chainVars
     \/ /\ vconvert \in GstVideoFormats
        /\ \/ hwaccel = "none" /\ AppendFiltered("videoconvert", vconvert, NoSize)
           \/ hwaccel = "vaapi" /\ AppendVaapipostproc(0, vconvert, NoSize)
  /\ UNCHANGED <<hwaccel, arguments, optionVars, pluggedVars>>

(* A size that was made invalid after it had been valid is no size.        *)
InitScale(n) ==
  /\ setup = <<"scale0", "scale1">>[n + 1]
  /\ setup' = <<"scale1", "sink">>[n + 1]
  /\ LET size == vscale[n].size
         format == IF n = 0 /\ vconvert = "none" THEN "NV12" ELSE "none"
         wanted == vscale[n].valid /\ size.width # 0 /\ size.height # 0
     IN  \/ ~wanted /\ UNCHANGED chainVars
         \/ wanted /\ hwaccel = "none" /\ AppendFiltered("videoscale", "none", size)
         \/ wanted /\ hwaccel = "vaapi" /\ AppendVaapipostproc(n, format, size)
  /\ UNCHANGED <<hwaccel, arguments, optionVars, pluggedVars>>

InitSink ==
  /\ setup = "sink" /\ setup' = "connect"
  /\ links' = links \cup Linked(postproc, Vsink)
  /\ HeadIs(Vsink)
  /\ UNCHANGED <<elements, postproc, vapostproc, vapostprocMask>>
  /\ UNCHANGED <<hwaccel, arguments, optionVars, pluggedVars>>

(* The source is linked and the callbacks connected.                       *)
Connect ==
  /\ setup = "connect" /\ setup' = "bus"
  /\ links' = links \cup {<<Source, Decodebin>>}
  /\ UNCHANGED <<elements, postproc, postprocHead, vapostproc, vapostprocMask>>
  /\ UNCHANGED <<hwaccel, arguments, optionVars, pluggedVars>>

(* app_init_bus()                                                          *)
InitBus ==
  /\ setup = "bus" /\ setup' = "winsys"
  /\ UNCHANGED <<hwaccel, arguments, optionVars, chainVars, pluggedVars>>

(* app_init_winsys()                                                       *)
InitWinsys ==
  /\ setup = "winsys" /\ setup' = "ready"
  /\ UNCHANGED <<hwaccel, arguments, optionVars, chainVars, pluggedVars>>

(* A format that no map knows, or a call that fails: app->error says why.  *)
SetupFails ==
  /\ \/ setup = "convert" /\ vconvert \notin GstVideoFormats \cup {"none"}
     \/ /\ SetupErrors
        /\ setup \in {"convert", "scale0", "scale1", "connect", "bus", "winsys"}
     \/ SetupErrors /\ setup = "options" /\ parsed = Len(arguments)
  /\ setup' = "failed"
  /\ UNCHANGED <<hwaccel, arguments, optionVars, chainVars, pluggedVars>>

(* The sink cannot be added or linked: nothing is stored in app->error.    *)
SinkFails ==
  /\ SetupErrors /\ setup = "sink" /\ setup' = "crashed"
  /\ UNCHANGED <<hwaccel, arguments, optionVars, chainVars, pluggedVars>>

SetUp ==
  \/ ParseOption \/ MakeElements \/ InitConvert
  \/ (\E n \in Scalers : InitScale(n))
  \/ InitSink \/ Connect \/ InitBus \/ InitWinsys \/ SetupFails \/ SinkFails

-----------------------------------------------------------------------------
(* decodebin and its signals                                               *)

(* on_autoplug_select()                                                    *)
ParserWanted(f) ==
  vparse = "none" /\ (vparseName # {} => f.name \in vparseName)

DecoderWanted(f) == f.vaapi = (hwaccel = "vaapi") /\ ~f.vaapiBin

Wanted(f) ==
  /\ f.media # "audio"
  /\ f.kind = "parser" /\ f.media = "video" => ParserWanted(f)
  /\ IsVideoDecoder(f) => DecoderWanted(f)

Takes(f) == stream \in f.takes /\ f \notin Range(plugged)

SkipFactory ==
  /\ stream # "raw" /\ offers # <<>>
  /\ ~(Takes(Head(offers)) /\ Wanted(Head(offers)))
  /\ offers' = Tail(offers)
  /\ UNCHANGED <<hwaccel, arguments, optionVars, setup, chainVars, stream,
                 plugged, vparse, vdecode>>

(* A decoder that was tried before is kept: a mistake.                     *)
KeepFirst(f) ==
  /\ vdecode' = IF vdecode = "none" /\ IsVideoDecoder(f) THEN f.decoder ELSE vdecode
  /\ vparse' = IF IsVideoParser(f) THEN f.name ELSE vparse

(* on_element_added(): the decoder, or the one inside of it, which may     *)
(* have none; the parser.                                                  *)
ElementAdded(f) ==
  /\ vdecode' = IF IsVideoDecoder(f) THEN f.decoder ELSE vdecode
  /\ vparse' = IF IsVideoParser(f) THEN f.name ELSE vparse

(* on_autoplug_query() limits what app->vparse may put out.                *)
Makes(f) ==
  IF IsVideoParser(f) /\ f.name = vparse' /\ vparseFilter # {}
    THEN f.makes \cap vparseFilter ELSE f.makes

PlugFactory ==
  /\ stream # "raw" /\ offers # <<>>
  /\ LET f == Head(offers)
     IN  /\ Takes(f) /\ Wanted(f)
         /\ ElementAdded(f)
         /\ stream' \in Makes(f)
         /\ plugged' = Append(plugged, f)
  /\ offers' = Factories
  /\ UNCHANGED <<hwaccel, arguments, optionVars, setup, chainVars>>

(* The element was added and does not work: it is removed, and stays what  *)
(* app->vparse or app->vdecode points to.                                  *)
FactoryFails ==
  /\ stream # "raw" /\ offers # <<>>
  /\ LET f == Head(offers)
     IN  /\ Takes(f) /\ Wanted(f)
         /\ ElementAdded(f)
  /\ offers' = Tail(offers)
  /\ UNCHANGED <<hwaccel, arguments, optionVars, setup, chainVars, stream, plugged>>

Autoplug == SkipFactory \/ PlugFactory \/ FactoryFails

NotDecodable == stream # "raw" /\ offers = <<>>

-----------------------------------------------------------------------------
(* Properties                                                              *)

(* The elements from the head of the chain on, as far as they are linked.  *)
Follower(e) == {link[2] : link \in {l \in links : l[1] = e}}

Walk ==
  LET step[i \in 1..Len(elements) + 1] ==
        IF i = 1 THEN {postprocHead} ELSE UNION {Follower(e) : e \in step[i - 1]}
  IN  step

Chain ==
  LET n == Cardinality({i \in DOMAIN Walk : Walk[i] # {}})
  IN  [i \in 1..n |-> CHOOSE e \in Walk[i] : TRUE]

(* What is asked for along the chain, without the elements that are asked  *)
(* for nothing.                                                            *)
Present(requests, nothing) ==
  LET upTo[i \in 0..Len(requests)] ==
        IF i = 0 THEN <<>>
        ELSE IF requests[i] = nothing THEN upTo[i - 1]
        ELSE Append(upTo[i - 1], requests[i])
  IN  upTo[Len(requests)]

Sizes(chain) == Present([i \in DOMAIN chain |-> elements[chain[i]].size], NoSize)

Formats(chain) == Present([i \in DOMAIN chain |-> elements[chain[i]].format], "none")

LastValue(key, Matches(_)) ==
  LET at == {i \in DOMAIN arguments : arguments[i].key = key /\ Matches(arguments[i])}
  IN  IF at = {} THEN <<>>
      ELSE <<arguments[CHOOSE i \in at : \A j \in at : j <= i].value>>

AskedSizes ==
  LastValue("vscale", LAMBDA o : o.number \in {0, 1})
    \o LastValue("vscale", LAMBDA o : o.number = 2)

AskedFormats ==
  LET format == LastValue("vconvert", LAMBDA o : TRUE)
  IN  IF format = <<>> /\ hwaccel = "vaapi" /\ vscale[0].valid
        THEN <<"NV12">> ELSE format

(* When decoder_init() succeeds, the pictures of decodebin pass through    *)
(* every element that was made, once and in a line that ends in the sink,  *)
(* and on their way get the format and the sizes that the options ask for, *)
(* in their order, whatever the order of the options and whether the work  *)
(* is done by one element or by four.  (An option that is refused may have *)
(* been stored in part.)                                                   *)
PipelineAsAsked ==
  setup = "ready" /\ ~refused =>
    /\ Cardinality(UNION {Walk[i] : i \in DOMAIN Walk}) = Len(Chain)
    /\ {Chain[i] : i \in DOMAIN Chain} = (1..Len(elements)) \ {Source, Decodebin}
    /\ Chain[Len(Chain)] = Vsink
    /\ Sizes(Chain) = AskedSizes
    /\ Formats(Chain) = AskedFormats

(* Once pictures come, they come from a decoder of the kind asked for, the *)
(* parser in front of it is one that was asked for and keeps to the caps   *)
(* asked for, and app->vdecode, which is asked for codec and profile, is   *)
(* that decoder and none of those that were tried before.                  *)
PluggedAsAsked ==
  stream = "raw" =>
    LET decoder == plugged[Len(plugged)]
        parsers == {f \in Range(plugged) : IsVideoParser(f)}
    IN  /\ IsVideoDecoder(decoder) /\ decoder.vaapi = (hwaccel = "vaapi")
        /\ vdecode = decoder.decoder
        /\ \A f \in parsers : f.media = "video" =>
             /\ f.name = vparse
             /\ vparseName # {} => f.name \in vparseName
             /\ vparseFilter # {} => decoder.takes \cap f.makes \cap vparseFilter # {}
=============================================================================

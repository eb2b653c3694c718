-------------------------- MODULE MCCaptureCommand --------------------------
EXTENDS CaptureCommand

MCVideoPriority == <<"h264_qsv", "h264_amf", "libx264", "libopenh264", "h264_mf", "mpeg4">>
MCAudioPriority == <<"aac", "libmp3lame">>
MCBuilds ==
  {{"mpeg4", "aac"}, {"mpeg4", "libx264", "aac"}, {"mpeg4", "h264_mf", "libx264", "libmp3lame"}}

MCPreferredSizes == <<"640x480", "848x480", "960x540", "1280x720">>
MCPreferredRates == <<15, 20, 10, 25, 30>>
MCPreferredFormats == <<"yuyv422", "nv12", "uyvy422", "rgb24">>

MCMode(s, r, f) == [size |-> s, rate |-> r, format |-> f]
MCModes ==
  {MCMode("640x480", 30, "nv12"), MCMode("1280x720", 15, "yuyv422"),
   MCMode("1920x1080", 60, "any"), MCMode("1920x1080", 30, "any")}
MCOffers == SeqOf(MCModes, 2)
=============================================================================

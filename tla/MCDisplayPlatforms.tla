--------------------------- MODULE MCDisplayPlatforms ---------------------------
EXTENDS DisplayPlatforms

CONSTANTS c1, c2, f1, f2

MCOutputs == {c1, c2}
MCFormats == {f1, f2}

\* Host screens: a full HD one and a small one.  Requests: one that fits
\* the full HD screen but not the small one, and one too tall for both.
MCScreens == {[w |-> 1920, h |-> 1080], [w |-> 1024, h |-> 768]}
MCRequests == {[w |-> 1280, h |-> 720], [w |-> 800, h |-> 1000]}
MCOrientations == {"normal", "left"}
MCScales == {1, 2}
\* The red masks of 24-bit TrueColor visuals, RGB and BGR.
MCRedMasks == {16711680, 255}
=============================================================================

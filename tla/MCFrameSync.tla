---------------------------- MODULE MCFrameSync ----------------------------
EXTENDS FrameSync
=============================================================================

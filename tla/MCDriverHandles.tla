--------------------------- MODULE MCDriverHandles ---------------------------
EXTENDS DriverHandles

\* The discrete GPU, which weighs most, has no display: it is the one that a
\* headless driver takes and that one made for windows must pass over.
MCGpus == <<[gfx |-> TRUE, present |-> TRUE, swapchain |-> TRUE,
             type |-> "integrated", memory |-> 1],
            [gfx |-> TRUE, present |-> FALSE, swapchain |-> TRUE,
             type |-> "discrete", memory |-> 2]>>
=============================================================================

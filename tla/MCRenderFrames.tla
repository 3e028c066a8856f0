--------------------------- MODULE MCRenderFrames ---------------------------
EXTENDS RenderFrames

MCLooks == {[z |-> 0, value |-> 1], [z |-> 1, value |-> 2]}

\* Two objects, in either order, when headless; one, and a second about to be
\* added, when the swapchain may be created again.
FewObjects == headless \/ Len(draw_obj_data) <= 1
=============================================================================

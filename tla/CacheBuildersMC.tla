--------------------------- MODULE CacheBuildersMC ---------------------------
EXTENDS CacheBuilders

CONSTANTS a, b

\* In order: the first message, an announcement; the last, a withdrawal; the second.
MCTime      == <<1, 2, 1>>
MCAnnounced == {1, 2}
=============================================================================

\* Two plugins, one of which answers to the other's name, and one skill.
\* Of what a page shows of a plugin, only its auth changes.
CONSTANTS
    p1 = p1
    p2 = p2
    f1 = f1
    f2 = f2
    Absent = Absent
    Torn = Torn
    Plugins <- ThePlugins
    Files <- TheFiles
    LinkFile <- TheLinks
    PageFile <- ThePages
    Catalogs <- TheCatalogs
    Looks = {1}
    Bare = Bare
    Skills = {"s"}

SPECIFICATION Spec
INVARIANT MainFollows
INVARIANT PagesFollow

\* A call stops when it has returned.
SPECIFICATION Spec
CONSTANTS
    k = k plain = plain withNul = withNul o = o c = c
    Key = {k}
    Types = {{plain, withNul}}
    Utf8 <- MCUtf8
    Odd = {o}
    Absent = Absent
    Code = {c, DefaultCode}
    DefaultCode = DefaultCode
    NoScript = NoScript
    NothingSaved = NothingSaved
    Begin = "BEGIN"
    End = "END"
    Newline = "newline"
    Slashes = "//"
    Space = "space"
    Apostrophe = "apostrophe"
    Quote = "quote"
    Percent = "%"
    EndOfText = "end of text"
    Directive = {"@import", "@name", "@feature"}
    ImportWord = "@import"
    FeatureWord = "@feature"
    Named = {"@name"}
    Variable <- MCVariable
    Expansion <- MCExpansion
    Scripts <- MCScripts
    t1 = t1 t2 = t2 t3 = t3
    Target = {t1, t2, t3}
    NoTarget = NoTarget
    Default = Default
    other = other
    Choice = {Default, other}
    Nothing = Nothing
    MaxLoads = 2
    Alnum = {"a", "W"}
    Punct = {"dot"}
    Blank = {"blank", "CR"}
    LineFeed = "LF"
    Return = "CR"
    EndOfString = "NUL"
    Width <- MCWidth
    Calls <- MCCalls
    Message = {"a", "b", "c", "d"}
INVARIANT DifferenceIsComplete
CHECK_DEADLOCK FALSE

SPECIFICATION Spec
CONSTANTS
    rust = rust
    ruby = ruby
    NoAnswer = NoAnswer
    Unset = Unset
    Askers <- MCAskers
    RubyAskers <- MCRubyAskers
    Specs <- MCSpecs
    Configs <- MCConfigs
    Answers <- MCAnswers
    MaxRequests = 1
PROPERTY RubyWaitEnds
CHECK_DEADLOCK FALSE

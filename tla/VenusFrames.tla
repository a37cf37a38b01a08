---------------------------- MODULE VenusFrames ----------------------------
(***************************************************************************)
(* What the routines of the Vulkan client (graphics/venus.cpp) send to the *)
(* host: a routine is the sequence of its steps, and a step is what a      *)
(* command names (uses), creates (makes) and destroys (kills), whether it  *)
(* waits for a reply, and whether its failure is ignored (soft).  Any      *)
(* other failure makes the routine return at once.                         *)
(***************************************************************************)
EXTENDS Integers, Sequences

CONSTANT Layers      \* layers of a composite, 1 or 2

Jobs == {"bringUpVulkan", "renderTriangleToScreen", "renderTexturedQuadToScreen", "compositeToScreen"}

-----------------------------------------------------------------------------
(* Steps.                                                                  *)

Step(kind, cmd, uses, makes, kills, reply, soft) ==
    <<[kind |-> kind, cmd |-> cmd, uses |-> uses, makes |-> makes, kills |-> kills, reply |-> reply,
       soft |-> soft]>>

\* A command whose VkResult is awaited, one that is only queued, a creation.
decodeStatusReply(cmd, uses) == Step("ring", cmd, uses \cup {"device"}, {}, {}, TRUE, FALSE)
Queued(cmd, uses) == Step("ring", cmd, uses, {}, {}, FALSE, FALSE)
decodeCreateReply(cmd, uses, object) ==
    Step("ring", cmd, uses \cup {"device"}, {object}, {}, TRUE, FALSE)

\* Pools take what was allocated from them along.
FreedWith(object) ==
    CASE object = "cmdPool" -> {"cmdPool", "cmdBuf"}
      [] object = "descPool" -> {"descPool", "descSet", "descSet0", "descSet1"}
      [] OTHER -> {object}

destroyObj(objects) ==
    [i \in DOMAIN objects |->
        Step("ring", "vkDestroy", {objects[i], "device"}, {}, FreedWith(objects[i]), FALSE, TRUE)[1]]

selectHostVisibleMemoryType(fallback) ==
    Step("ring", "vkGetPhysicalDeviceMemoryProperties", {"physDev"}, {}, {}, TRUE, fallback)

\* The guest mapping of a memory object is made by a virtio command of its own.
allocateMappableMemory(memory) ==
    decodeCreateReply("vkAllocateMemory", {}, memory) \o Step("map", "blob", {memory}, {}, {}, FALSE, FALSE)

freeMapped(memories) ==
    [i \in DOMAIN memories |-> Step("unmap", "blob", {memories[i]}, {}, {}, FALSE, TRUE)[1]]

BoundMemory(owner, memory, fallback) ==
    decodeStatusReply("vkGetMemoryRequirements", {owner}) \o selectHostVisibleMemoryType(fallback)
        \o allocateMappableMemory(memory) \o decodeStatusReply("vkBindMemory", {owner, memory})

-----------------------------------------------------------------------------
(* The session, up to its device.                                          *)

setReplyStream == Queued("vkSetReplyCommandStreamMESA", {})
createInstance == Step("ring", "vkCreateInstance", {}, {"instance"}, {}, TRUE, FALSE)
enumeratePhysicalDevices ==
    Step("ring", "vkEnumeratePhysicalDevices", {"instance"}, {}, {}, TRUE, FALSE)
        \o Step("ring", "vkEnumeratePhysicalDevices", {"instance"}, {"physDev"}, {}, TRUE, FALSE)
getPhysicalDeviceProperties ==
    Step("ring", "vkGetPhysicalDeviceProperties", {"physDev"}, {}, {}, TRUE, TRUE)
createDevice == Step("ring", "vkCreateDevice", {"physDev"}, {"device"}, {}, TRUE, FALSE)

SessionSteps(job) ==
    setReplyStream \o createInstance \o enumeratePhysicalDevices
        \o (IF job = "bringUpVulkan" THEN getPhysicalDeviceProperties ELSE <<>>) \o createDevice

-----------------------------------------------------------------------------
(* runCompute.                                                             *)

ComputeBuffer == decodeCreateReply("vkCreateBuffer", {}, "buffer") \o BoundMemory("buffer", "memory", FALSE)
ComputeDescriptors ==
    decodeCreateReply("vkCreateShaderModule", {}, "shaderModule")
        \o decodeCreateReply("vkCreateDescriptorSetLayout", {}, "setLayout")
        \o decodeCreateReply("vkCreateDescriptorPool", {}, "descPool")
        \o decodeCreateReply("vkAllocateDescriptorSets", {"descPool", "setLayout"}, "descSet")
ComputePipeline ==
    Queued("vkUpdateDescriptorSets", {"descSet", "buffer"})
        \o decodeCreateReply("vkCreatePipelineLayout", {"setLayout"}, "pipelineLayout")
        \o decodeCreateReply("vkCreateComputePipelines", {"shaderModule", "pipelineLayout"}, "pipeline")
ComputeQueue ==
    Step("ring", "vkGetDeviceQueue2", {"device"}, {"queue"}, {}, FALSE, FALSE)
        \o decodeCreateReply("vkCreateCommandPool", {}, "cmdPool")
        \o decodeCreateReply("vkAllocateCommandBuffers", {"cmdPool"}, "cmdBuf")
ComputeRecord ==
    decodeStatusReply("vkBeginCommandBuffer", {"cmdBuf"})
        \o Queued("vkCmd", {"cmdBuf", "pipeline"}) \o Queued("vkCmd", {"cmdBuf", "pipelineLayout", "descSet", "buffer"})
        \o Queued("vkCmd", {"cmdBuf"}) \o decodeStatusReply("vkEndCommandBuffer", {"cmdBuf"})
SubmitAndWait ==
    decodeCreateReply("vkCreateFence", {}, "fence") \o decodeStatusReply("vkQueueSubmit", {"queue", "cmdBuf", "fence"})
        \o decodeStatusReply("vkWaitForFences", {"fence"})
SubmitOnly ==
    decodeCreateReply("vkCreateFence", {}, "fence") \o decodeStatusReply("vkQueueSubmit", {"queue", "cmdBuf", "fence"})
ComputeSubmit == SubmitAndWait
ComputeRelease ==
    destroyObj(<<"fence", "cmdPool", "pipeline", "pipelineLayout", "descPool", "setLayout", "shaderModule",
                 "buffer", "memory">>) \o freeMapped(<<"memory">>)

runCompute ==
    ComputeBuffer \o ComputeDescriptors \o ComputePipeline \o ComputeQueue \o ComputeRecord \o ComputeSubmit
        \o ComputeRelease

-----------------------------------------------------------------------------
(* renderTriangle.                                                         *)

TriangleImage ==
    decodeCreateReply("vkCreateShaderModule", {}, "vert") \o decodeCreateReply("vkCreateShaderModule", {}, "frag")
        \o decodeCreateReply("vkCreateImage", {}, "image") \o BoundMemory("image", "imgMemory", TRUE)
TriangleTarget ==
    decodeCreateReply("vkCreateImageView", {"image"}, "view") \o decodeCreateReply("vkCreateRenderPass", {}, "renderPass")
        \o decodeCreateReply("vkCreateFramebuffer", {"renderPass", "view"}, "framebuffer")
TrianglePipeline ==
    decodeCreateReply("vkCreatePipelineLayout", {}, "pipelineLayout")
        \o decodeCreateReply("vkCreateGraphicsPipelines", {"vert", "frag", "pipelineLayout", "renderPass"}, "pipeline")
ReadbackBuffer == decodeCreateReply("vkCreateBuffer", {}, "rbuf") \o BoundMemory("rbuf", "rbMemory", FALSE)
TriangleReadback == ReadbackBuffer \o ComputeQueue
TriangleRecord ==
    decodeStatusReply("vkBeginCommandBuffer", {"cmdBuf"})
        \o Queued("vkCmd", {"cmdBuf", "renderPass", "framebuffer", "view"}) \o Queued("vkCmd", {"cmdBuf", "pipeline"})
        \o Queued("vkCmd", {"cmdBuf"}) \o Queued("vkCmd", {"cmdBuf"}) \o Queued("vkCmd", {"cmdBuf", "image", "rbuf"})
        \o decodeStatusReply("vkEndCommandBuffer", {"cmdBuf"})
TriangleSubmit == SubmitAndWait
TriangleRelease ==
    destroyObj(<<"fence", "cmdPool", "pipeline", "pipelineLayout", "framebuffer", "renderPass", "view", "image",
                 "rbuf", "imgMemory", "rbMemory", "vert", "frag">>) \o freeMapped(<<"imgMemory", "rbMemory">>)

renderTriangle ==
    TriangleImage \o TriangleTarget \o TrianglePipeline \o TriangleReadback \o TriangleRecord \o TriangleSubmit
        \o TriangleRelease

-----------------------------------------------------------------------------
(* renderTexturedQuad.                                                     *)

createBoundImage(image, memory, fallback) ==
    decodeCreateReply("vkCreateImage", {}, image) \o BoundMemory(image, memory, fallback)
createColorView(image, view) == decodeCreateReply("vkCreateImageView", {image}, view)

QuadTarget ==
    decodeCreateReply("vkCreateShaderModule", {}, "vert") \o decodeCreateReply("vkCreateShaderModule", {}, "frag")
        \o createBoundImage("rtImage", "rtMemory", TRUE) \o createColorView("rtImage", "rtView")
QuadTexture == createBoundImage("texImage", "texMemory", FALSE) \o createColorView("texImage", "texView")
QuadRect == decodeCreateReply("vkCreateBuffer", {}, "rectBuf") \o BoundMemory("rectBuf", "rectMemory", FALSE)
QuadDescriptors ==
    decodeCreateReply("vkCreateSampler", {}, "sampler") \o decodeCreateReply("vkCreateDescriptorSetLayout", {}, "setLayout")
        \o decodeCreateReply("vkCreateDescriptorPool", {}, "descPool")
        \o decodeCreateReply("vkAllocateDescriptorSets", {"descPool", "setLayout"}, "descSet")
QuadPass ==
    Queued("vkUpdateDescriptorSets", {"descSet", "sampler", "texView", "rectBuf"})
        \o decodeCreateReply("vkCreatePipelineLayout", {"setLayout"}, "pipelineLayout")
        \o decodeCreateReply("vkCreateRenderPass", {}, "renderPass")
        \o decodeCreateReply("vkCreateFramebuffer", {"renderPass", "rtView"}, "framebuffer")
QuadPipeline ==
    decodeCreateReply("vkCreateGraphicsPipelines", {"vert", "frag", "pipelineLayout", "renderPass"}, "pipeline")
QuadReadback == ReadbackBuffer
QuadQueue == ComputeQueue
QuadRecord ==
    decodeStatusReply("vkBeginCommandBuffer", {"cmdBuf"}) \o Queued("vkCmd", {"cmdBuf", "texImage"})
        \o Queued("vkCmd", {"cmdBuf", "renderPass", "framebuffer", "rtView"}) \o Queued("vkCmd", {"cmdBuf", "pipeline"})
        \o Queued("vkCmd", {"cmdBuf", "pipelineLayout", "descSet", "texView", "sampler", "rectBuf"})
        \o Queued("vkCmd", {"cmdBuf"}) \o Queued("vkCmd", {"cmdBuf"}) \o Queued("vkCmd", {"cmdBuf", "rtImage", "rbuf"})
        \o decodeStatusReply("vkEndCommandBuffer", {"cmdBuf"})
QuadSubmit == SubmitAndWait
QuadRelease ==
    destroyObj(<<"fence", "cmdPool", "pipeline", "pipelineLayout", "descPool", "setLayout", "sampler", "framebuffer",
                 "renderPass", "texView", "texImage", "rtView", "rtImage", "rbuf", "rectBuf", "rtMemory", "texMemory",
                 "rectMemory", "rbMemory", "vert", "frag">>)
        \o freeMapped(<<"rtMemory", "texMemory", "rectMemory", "rbMemory">>)

renderTexturedQuad ==
    QuadTarget \o QuadTexture \o QuadRect \o QuadDescriptors \o QuadPass \o QuadPipeline \o QuadReadback
        \o QuadQueue \o QuadRecord \o QuadSubmit \o QuadRelease

-----------------------------------------------------------------------------
(* compositeLayers: one texture, rectangle and descriptor set per layer.   *)

texImage == <<"texImage0", "texImage1">>
texMemory == <<"texMemory0", "texMemory1">>
texView == <<"texView0", "texView1">>
rectBuf == <<"rectBuf0", "rectBuf1">>
rectMemory == <<"rectMemory0", "rectMemory1">>
descSet == <<"descSet0", "descSet1">>

\* for (i = 0; i < layerCount; ++i)
EachLayer(steps) == IF Layers = 1 THEN steps[1] ELSE steps[1] \o steps[2]

CompositeTarget == QuadTarget
CompositeSampler ==
    decodeCreateReply("vkCreateSampler", {}, "sampler") \o decodeCreateReply("vkCreateDescriptorSetLayout", {}, "setLayout")
        \o decodeCreateReply("vkCreateDescriptorPool", {}, "descPool")
        \o decodeCreateReply("vkCreatePipelineLayout", {"setLayout"}, "pipelineLayout")
CompositePass ==
    decodeCreateReply("vkCreateRenderPass", {}, "renderPass")
        \o decodeCreateReply("vkCreateFramebuffer", {"renderPass", "rtView"}, "framebuffer")
CompositePipeline == QuadPipeline
LayerTexture(i) ==
    createBoundImage(texImage[i], texMemory[i], FALSE) \o createColorView(texImage[i], texView[i])
        \o decodeCreateReply("vkCreateBuffer", {}, rectBuf[i]) \o BoundMemory(rectBuf[i], rectMemory[i], FALSE)
LayerSet(i) ==
    decodeCreateReply("vkAllocateDescriptorSets", {"descPool", "setLayout"}, descSet[i])
        \o Queued("vkUpdateDescriptorSets", {descSet[i], "sampler", texView[i], rectBuf[i]})
CompositeReadback == ReadbackBuffer
CompositeQueue == ComputeQueue
CompositeRecord ==
    decodeStatusReply("vkBeginCommandBuffer", {"cmdBuf"})
        \o EachLayer([i \in 1..Layers |-> Queued("vkCmd", {"cmdBuf", texImage[i]})])
        \o Queued("vkCmd", {"cmdBuf", "renderPass", "framebuffer", "rtView"}) \o Queued("vkCmd", {"cmdBuf", "pipeline"})
        \o EachLayer([i \in 1..Layers |->
              Queued("vkCmd", {"cmdBuf", "pipelineLayout", descSet[i], texView[i], "sampler", rectBuf[i]})
                  \o Queued("vkCmd", {"cmdBuf"})])
CompositeCopy ==
    Queued("vkCmd", {"cmdBuf"}) \o Queued("vkCmd", {"cmdBuf", "rtImage", "rbuf"})
        \o decodeStatusReply("vkEndCommandBuffer", {"cmdBuf"})
CompositeSubmit == SubmitAndWait
CompositeRelease ==
    EachLayer([i \in 1..Layers |->
        destroyObj(<<texView[i], texImage[i], rectBuf[i], texMemory[i], rectMemory[i]>>)
            \o freeMapped(<<texMemory[i], rectMemory[i]>>)])
        \o destroyObj(<<"fence", "cmdPool", "pipeline", "pipelineLayout", "descPool", "setLayout", "sampler",
                        "framebuffer", "renderPass", "rtView", "rtImage", "rbuf", "rtMemory", "rbMemory", "vert",
                        "frag">>)
        \o freeMapped(<<"rtMemory", "rbMemory">>)

compositeLayers ==
    CompositeTarget \o CompositeSampler \o CompositePass \o CompositePipeline
        \o EachLayer([i \in 1..Layers |-> LayerTexture(i) \o LayerSet(i)])
        \o CompositeReadback \o CompositeQueue \o CompositeRecord \o CompositeCopy \o CompositeSubmit
        \o CompositeRelease

-----------------------------------------------------------------------------
Frame ==
    [bringUpVulkan |-> runCompute, renderTriangleToScreen |-> renderTriangle,
     renderTexturedQuadToScreen |-> renderTexturedQuad, compositeToScreen |-> compositeLayers]
Program == [job \in Jobs |-> SessionSteps(job) \o Frame[job]]
FirstOfFrame == [job \in Jobs |-> Len(SessionSteps(job)) + 1]
=============================================================================
